---- MODULE Spec2Model ----
(***************************************************************************)
(* The MTP-DCN switch daemon of closnet (closnet/switches/mtp/src/main.c). *)
(*                                                                         *)
(* One daemon runs per switch.  Its event loop receives at most one MTP    *)
(* frame and (on a leaf) one IPv4 packet, handles them, then runs the      *)
(* periodic pass over its control ports.  One loop iteration is one step.  *)
(*                                                                         *)
(* C strings are integer sequences: the VID "a.b.c" is <<a, b, c>> and the *)
(* interface name "<node>-eth<k>" of a node is <<-k>> (the negative token  *)
(* stands for the text up to the port number, so that a port name is never *)
(* equal to a VID nor a prefix of one).                                    *)
(***************************************************************************)
EXTENDS Integers, Sequences, FiniteSets, TLC

(***************************************************************************)
(* Program constants (mtp_utils.h is not part of the sources at hand; the  *)
(* values are the documented ones).                                        *)
(***************************************************************************)
HELLO_TIMER == 500
DEAD_TIMER == 1500
MISS_FAIL == 1
DETECT_FAIL == 2
REACHABLE_OPTION == 1
UNREACHABLE_OPTION == 2
VID_octet == 3

MTP_TYPE_HELLONR_MSG == "HELLONR"
MTP_TYPE_JOIN_REQ == "JOIN_REQ"
MTP_TYPE_JOIN_RES == "JOIN_RES"
MTP_TYPE_JOIN_ACK == "JOIN_ACK"
MTP_TYPE_START_HELLO == "START_HELLO"
MTP_TYPE_DATA_MSG == "DATA_MSG"
MTP_TYPE_KEEP_ALIVE == "KEEP_ALIVE"
MTP_TYPE_FAILURE_UPDATE == "FAILURE_UPDATE"
MTP_TYPE_RECOVER_UPDATE == "RECOVER_UPDATE"

(***************************************************************************)
(* Bounds of the model.                                                    *)
(***************************************************************************)
\* the clock advances MaxTicks times at most, HELLO_TIMER ms at a time
MaxTicks == 3

\* the same for the clock of the whole fabric when a link fails and comes back
MaxNetTicks == 6

(***************************************************************************)
(* The fabric: leaf L1, mid-tier spines T1 and T2, top spine S1.            *)
(* L1 hangs on both mid-tier spines, and both hang on S1.                   *)
(***************************************************************************)
Node == {"L1", "T1", "T2", "S1"}

\* <node>.conf as read by readConfigurationFile
mtpConfig(n) ==
    LET tierValue == IF n = "L1" THEN 1 ELSE IF n \in {"T1", "T2"} THEN 2 ELSE 3
    IN  [tier |-> tierValue, isTopSpine |-> (tierValue = 3), isLeaf |-> (tierValue = 1)]

\* the veth pairs the emulator creates: <<lower node, port>> to <<upper node, port>>
Links ==
    { << <<"L1", 1>>, <<"T1", 1>> >>, << <<"L1", 2>>, <<"T2", 1>> >>,
      << <<"T1", 2>>, <<"S1", 1>> >>, << <<"T2", 2>>, <<"S1", 2>> >> }

Iface == {l[1] : l \in Links} \cup {l[2] : l \in Links}

Peer(i) == CHOOSE j \in Iface : << i, j >> \in Links \/ << j, i >> \in Links

\* the control ports of a node, in the order of the control-port list
NumPorts(n) == Cardinality({i \in Iface : i[1] = n})

port_name(k) == << 0 - k >>

\* the third octet of the leaf's compute subnet
RootOctet(n) == 1

\* getRootVID: the octet as a decimal string
getRootVID(n) == << RootOctet(n) >>

NULL == 0

(***************************************************************************)
(* Frames.                                                                 *)
(***************************************************************************)
Frame(t, tierValue, option, VIDs, src, dest, ipBytes) ==
    [type |-> t, tier |-> tierValue, opt |-> option, vids |-> VIDs,
     src_VID |-> src, dest_VID |-> dest, ip |-> ipBytes]

NoFrame == Frame("none", 0, 0, {}, 0, 0, << >>)

\* one transmission: a frame written to the raw socket for a port
Send(k, f) == << [port |-> k, frame |-> f] >>

hello_NR(tierValue, VIDs) == Frame(MTP_TYPE_HELLONR_MSG, tierValue, 0, VIDs, 0, 0, << >>)

keep_alive == Frame(MTP_TYPE_KEEP_ALIVE, 0, 0, {}, 0, 0, << >>)

failure_update(VIDs, option) == Frame(MTP_TYPE_FAILURE_UPDATE, 0, option, VIDs, 0, 0, << >>)

recover_update(VIDs, option) == Frame(MTP_TYPE_RECOVER_UPDATE, 0, option, VIDs, 0, 0, << >>)

data_msg(src, dest, ipBytes) == Frame(MTP_TYPE_DATA_MSG, 0, 0, {}, src, dest, ipBytes)

\* the IPv4 packet of a tenant server, known by the last two octets of its
\* source and destination addresses
ipv4_packet(ipBytes) == Frame("IPV4", 0, 0, {}, 0, 0, ipBytes)

send_join_req(k, VIDs) == Send(k, Frame(MTP_TYPE_JOIN_REQ, 0, 0, VIDs, 0, 0, << >>))

send_join_res(k, VIDs) == Send(k, Frame(MTP_TYPE_JOIN_RES, 0, 0, VIDs, 0, 0, << >>))

send_join_ack(k, VIDs) == Send(k, Frame(MTP_TYPE_JOIN_ACK, 0, 0, VIDs, 0, 0, << >>))

send_start_hello(k) == Send(k, Frame(MTP_TYPE_START_HELLO, 0, 0, {}, 0, 0, << >>))

\* the compute interface of a leaf
COMPUTE_PORT == 0

route_data_to_server(m) == Send(COMPUTE_PORT, ipv4_packet(m.ip))

route_data_from_spine(k, m) == Send(k, m)

route_data_from_tor_to_spine(k, src, dest, ipBytes) == Send(k, data_msg(src, dest, ipBytes))

\* the frame f on each port of the sequence ks, in order
SendEach(ks, f) == [i \in 1..Len(ks) |-> [port |-> ks[i], frame |-> f]]

(***************************************************************************)
(* Strings and VIDs.                                                       *)
(***************************************************************************)
\* the dotted string a is b or a leading part of b
IsPrefix(a, b) == Len(a) <= Len(b) /\ SubSeq(b, 1, Len(a)) = a

\* int_to_str: a 16-bit VID as a decimal string
int_to_str(v) == << v >>

\* append "." and the digits after "eth" of the interface name
append_port_number_after_VID(name, VID) == VID \o << 0 - name[1] >>

(***************************************************************************)
(* Jenkins one-at-a-time hash.  A uint32_t is kept as its two 16-bit       *)
(* halves <<high, low>>, so that every intermediate value fits an integer  *)
(* of the checker; all arithmetic is modulo 2^32.                          *)
(***************************************************************************)
W16 == 65536

RECURSIVE Xor(_, _)
Xor(a, b) ==
    IF a = 0 THEN b
    ELSE IF b = 0 THEN a
    ELSE (((a % 2) + (b % 2)) % 2) + (2 * Xor(a \div 2, b \div 2))

U32Add(x, y) ==
    LET lo == x[2] + y[2]
    IN  << (x[1] + y[1] + (lo \div W16)) % W16, lo % W16 >>

\* x << s and x >> s, for 0 < s < 16
U32Shl(x, s) ==
    LET p == 2 ^ s
    IN  << ((x[1] * p) + ((x[2] * p) \div W16)) % W16, (x[2] * p) % W16 >>

U32Shr(x, s) ==
    LET p == 2 ^ s
    IN  << x[1] \div p, (x[2] \div p) + ((x[1] % p) * (W16 \div p)) >>

U32Xor(x, y) == << Xor(x[1], y[1]), Xor(x[2], y[2]) >>

U32Mod(x, n) == (((x[1] % n) * (W16 % n)) + x[2]) % n

RECURSIVE jenkins_mix(_, _, _)
jenkins_mix(key, i, h) ==
    IF i > Len(key) THEN h
    ELSE LET h1 == U32Add(h, << 0, key[i] >>)
             h2 == U32Add(h1, U32Shl(h1, 10))
             h3 == U32Xor(h2, U32Shr(h2, 6))
         IN  jenkins_mix(key, i + 1, h3)

jenkins_one_at_a_time_hash(key) ==
    LET h0 == jenkins_mix(key, 1, << 0, 0 >>)
        h1 == U32Add(h0, U32Shl(h0, 3))
        h2 == U32Xor(h1, U32Shr(h1, 11))
    IN  U32Add(h2, U32Shl(h2, 15))

(***************************************************************************)
(* Port and VID tables.  A node's state is a record                        *)
(*   cp  : control ports, by port number                                   *)
(*   vap : accepted-VID table, a list of entries in order of creation      *)
(*   vop : offered-VID table, likewise                                     *)
(* An entry's cp field is the back-reference to its control port (NULL     *)
(* until stamped).                                                         *)
(***************************************************************************)
NewControlPort ==
    [isUP |-> FALSE, start |-> FALSE, last_sent_time |-> 0, last_received_time |-> 0,
     fail_type |-> 0, continue_count |-> 0]

find_control_port_by_name(cps, name) ==
    IF \E k \in DOMAIN cps : port_name(k) = name
    THEN CHOOSE k \in DOMAIN cps : port_name(k) = name
    ELSE NULL

\* index of the entry of the port in a table, NULL when there is none
find_port_by_name(table, name) ==
    IF \E i \in 1..Len(table) : table[i].port_name = name
    THEN CHOOSE i \in 1..Len(table) : table[i].port_name = name
    ELSE NULL

find_accepted_port_by_name(vap_head, name) == find_port_by_name(vap_head, name)

find_offered_port_by_name(vop_head, name) == find_port_by_name(vop_head, name)

add_to_accepted_table(vap_head, name, VID) ==
    LET i == find_accepted_port_by_name(vap_head, name)
    IN  IF i = NULL
        THEN Append(vap_head, [port_name |-> name, vids |-> {VID}, ut |-> {}, cp |-> NULL])
        ELSE [vap_head EXCEPT ![i].vids = @ \cup {VID}]

add_to_offered_table(vop_head, name, VID) ==
    LET i == find_offered_port_by_name(vop_head, name)
    IN  IF i = NULL
        THEN Append(vop_head, [port_name |-> name, vids |-> {VID}, rt |-> {}, ut |-> {}, cp |-> NULL])
        ELSE [vop_head EXCEPT ![i].vids = @ \cup {VID}]

RECURSIVE add_all_to_accepted_table(_, _, _)
add_all_to_accepted_table(vap_head, name, VIDs) ==
    IF VIDs = {} THEN vap_head
    ELSE LET v == CHOOSE x \in VIDs : TRUE
         IN  add_all_to_accepted_table(add_to_accepted_table(vap_head, name, v), name, VIDs \ {v})

RECURSIVE add_all_to_offered_table(_, _, _)
add_all_to_offered_table(vop_head, name, VIDs) ==
    IF VIDs = {} THEN vop_head
    ELSE LET v == CHOOSE x \in VIDs : TRUE
         IN  add_all_to_offered_table(add_to_offered_table(vop_head, name, v), name, VIDs \ {v})

\* a table of VIDs lists the VID "name": some entry is name or extends it
find_VID_by_name(table, name) == \E v \in table : IsPrefix(name, v)

find_unreachable_VID_by_name(ut, name) == find_VID_by_name(ut, name)

find_reachable_VID_by_name(rt, name) == find_VID_by_name(rt, name)

add_to_unreachable_table(ut, VIDs) == ut \cup VIDs

add_to_reachable_table(rt, VIDs) == rt \cup VIDs

remove_unreachable_VID_by_name(ut, VIDs) == ut \ VIDs

clear_VID_table(t) == {}

\* first accepted entry one of whose VIDs is the VID or extends it
find_accepted_port_by_VID(vap_head, VID) ==
    LET hit == {i \in 1..Len(vap_head) : find_VID_by_name(vap_head[i].vids, VID)}
    IN  IF hit = {} THEN NULL ELSE CHOOSE i \in hit : \A j \in hit : i <= j

is_all_offered_ports_down(st) ==
    \A i \in 1..Len(st.vop) : ~st.cp[st.vop[i].cp].isUP

is_unreachable_and_reachable_empty(vop_head) ==
    \A i \in 1..Len(vop_head) : vop_head[i].rt = {} /\ vop_head[i].ut = {}

get_unreachable_VIDs_from_offered_ports(vop_head) ==
    UNION {vop_head[i].ut : i \in 1..Len(vop_head)}

get_all_accepted_VIDs(vap_head) ==
    UNION {vap_head[i].vids : i \in 1..Len(vap_head)}

get_accepted_VIDs_by_port_name(vap_head, name) ==
    LET i == find_accepted_port_by_name(vap_head, name)
    IN  IF i = NULL THEN {} ELSE vap_head[i].vids

\* port numbers of the table's entries, in list order
EntryPorts(table) == [i \in 1..Len(table) |-> table[i].cp]

UpPorts(st, ks) == SelectSeq(ks, LAMBDA k : st.cp[k].isUP)

\* an offered port is available for a destination when it is up, the
\* destination is not listed unreachable there, and its reachable sub-table
\* is empty or lists the destination
offered_port_available(st, e, VID) ==
    /\ st.cp[e.cp].isUP
    /\ ~find_unreachable_VID_by_name(e.ut, VID)
    /\ (e.rt = {} \/ find_reachable_VID_by_name(e.rt, VID))

\* the names of the available offered ports, in list order
count_available_offered_port(st, VID) ==
    LET avail == SelectSeq(st.vop, LAMBDA e : offered_port_available(st, e, VID))
    IN  [i \in 1..Len(avail) |-> avail[i].port_name]

\* the interface is among those the kernel reports for the node
check_port_is_alive(working_ports, k) == k \in working_ports


(***************************************************************************)
(* The handlers.  Each takes the node's state st, its configuration cfg,   *)
(* the port number k the frame m came in on and the clock, and yields the  *)
(* new state and the frames sent, in order.                                *)
(***************************************************************************)
Result(s, o) == [st |-> s, out |-> o]

PortSeq(st) == [k \in 1..Len(st.cp) |-> k]

\* (a switch that answers the Hello-NR of any tier)
handle_receive_hello_NR_any_tier(st, cfg, k, m) ==
    Result(st, send_join_req(k, m.vids))

\* (a switch that drops only the Hello-NR of a strictly higher tier)
handle_receive_hello_NR_of_peers(st, cfg, k, m) ==
    IF m.tier > cfg.tier
    THEN Result(st, << >>)
    ELSE Result(st, send_join_req(k, m.vids))

handle_receive_hello_NR(st, cfg, k, m) ==
    IF m.tier >= cfg.tier
    THEN Result(st, << >>)
    ELSE Result(st, send_join_req(k, m.vids))

\* (a Join-Res that returns the VIDs as they came)
handle_receive_join_req_unextended(st, cfg, k, m) ==
    Result(st, send_join_res(k, m.vids))

handle_receive_join_req(st, cfg, k, m) ==
    LET extended == {append_port_number_after_VID(port_name(k), v) : v \in m.vids}
    IN  Result(st, send_join_res(k, extended))

\* (a Join-Res or Join-Ack without VIDs would find no entry to stamp;
\* every frame of the model carries at least one VID)
handle_receive_join_res(st, cfg, k, m) ==
    LET vap1 == add_all_to_accepted_table(st.vap, port_name(k), m.vids)
        i == find_accepted_port_by_name(vap1, port_name(k))
        vap2 == IF i # NULL /\ vap1[i].cp = NULL
                THEN [vap1 EXCEPT ![i].cp = find_control_port_by_name(st.cp, port_name(k))]
                ELSE vap1
        hellos == IF ~cfg.isTopSpine
                  THEN SendEach(PortSeq(st), hello_NR(cfg.tier, m.vids))
                  ELSE << >>
    IN  Result([st EXCEPT !.vap = vap2], hellos \o send_join_ack(k, m.vids))

\* (a Join-Ack that is acknowledged but brings no port up)
handle_receive_join_ack_no_start(st, cfg, k, m) ==
    Result([st EXCEPT !.vop = add_all_to_offered_table(st.vop, port_name(k), m.vids)],
           send_start_hello(k))

handle_receive_join_ack(st, cfg, k, m) ==
    LET vop1 == add_all_to_offered_table(st.vop, port_name(k), m.vids)
        i == find_offered_port_by_name(vop1, port_name(k))
        fresh == i # NULL /\ vop1[i].cp = NULL
        c == find_control_port_by_name(st.cp, port_name(k))
        vop2 == IF fresh THEN [vop1 EXCEPT ![i].cp = c] ELSE vop1
        cp2 == IF fresh THEN [st.cp EXCEPT ![c].isUP = TRUE, ![c].start = TRUE] ELSE st.cp
    IN  Result([st EXCEPT !.vop = vop2, !.cp = cp2], send_start_hello(k))

handle_receive_start_hello(st, cfg, k) ==
    Result([st EXCEPT !.cp[k].isUP = TRUE, !.cp[k].start = TRUE], << >>)

\* pick among the available offered ports by hash and send the frame there
push_up(st, dest_VID_str, ipBytes, frame, now) ==
    LET avail == count_available_offered_port(st, dest_VID_str)
        available_offered_port_num == Len(avail)
    IN  IF available_offered_port_num = 0
        THEN Result(st, << >>)
        ELSE LET hash_code == jenkins_one_at_a_time_hash(ipBytes)
                 pick == avail[U32Mod(hash_code, available_offered_port_num) + 1]
                 c == find_control_port_by_name(st.cp, pick)
             IN  Result([st EXCEPT !.cp[c].last_sent_time = now], Send(c, frame))

\* (a check of the accepted port that forgets whether the port is up)
accepted_port_unusable_ignoring_isUP(st, e) ==
    find_unreachable_VID_by_name(e.ut, e.port_name)

\* the accepted entry e cannot take the packet: the unreachable sub-table is
\* asked for the name of the port
accepted_port_unusable(st, e) ==
    ~st.cp[e.cp].isUP \/ find_unreachable_VID_by_name(e.ut, e.port_name)

\* (a spine that pushes the packet up when the accepted port cannot take it)
handle_receive_data_msg_or_push_up(st, cfg, k, m, now) ==
    LET st1 == [st EXCEPT !.cp[k].last_received_time = now]
        i == find_accepted_port_by_VID(st1.vap, int_to_str(m.dest_VID))
    IN  IF cfg.isLeaf
        THEN Result(st1, route_data_to_server(m))
        ELSE IF i # NULL /\ ~accepted_port_unusable(st1, st1.vap[i])
        THEN Result([st1 EXCEPT !.cp[st1.vap[i].cp].last_sent_time = now],
                    route_data_from_spine(st1.vap[i].cp, m))
        ELSE push_up(st1, int_to_str(m.dest_VID), m.ip, m, now)

\* (a DATA_MSG that refreshes the receive time of a port that is up only)
handle_receive_data_msg_when_up(st, cfg, k, m, now) ==
    LET st1 == IF st.cp[k].isUP THEN [st EXCEPT !.cp[k].last_received_time = now] ELSE st
    IN  IF cfg.isLeaf
        THEN Result(st1, route_data_to_server(m))
        ELSE LET dest_VID_str == int_to_str(m.dest_VID)
                 i == find_accepted_port_by_VID(st1.vap, dest_VID_str)
             IN  IF i # NULL
                 THEN LET e == st1.vap[i]
                          c == find_control_port_by_name(st1.cp, e.port_name)
                      IN  IF accepted_port_unusable(st1, e)
                          THEN Result(st1, << >>)
                          ELSE Result([st1 EXCEPT !.cp[c].last_sent_time = now],
                                      route_data_from_spine(c, m))
                 ELSE push_up(st1, dest_VID_str, m.ip, m, now)

handle_receive_data_msg(st, cfg, k, m, now) ==
    LET st1 == [st EXCEPT !.cp[k].last_received_time = now]
    IN  IF cfg.isLeaf
        THEN Result(st1, route_data_to_server(m))
        ELSE LET dest_VID_str == int_to_str(m.dest_VID)
                 i == find_accepted_port_by_VID(st1.vap, dest_VID_str)
             IN  IF i # NULL
                 THEN LET e == st1.vap[i]
                          c == find_control_port_by_name(st1.cp, e.port_name)
                      IN  IF accepted_port_unusable(st1, e)
                          THEN Result(st1, << >>)
                          ELSE Result([st1 EXCEPT !.cp[c].last_sent_time = now],
                                      route_data_from_spine(c, m))
                 ELSE push_up(st1, dest_VID_str, m.ip, m, now)

\* ipBytes = << src_ip[2], src_ip[3], dst_ip[2], dst_ip[3] >>: octet VID_octet
\* of an address (counted from 1) is at VID_octet - 2, resp. VID_octet
handle_receive_from_server(st, cfg, ipBytes, now) ==
    LET src_VID == ipBytes[VID_octet - 2]
        dest_VID == ipBytes[VID_octet]
    IN  push_up(st, int_to_str(dest_VID), ipBytes, data_msg(src_VID, dest_VID, ipBytes), now)


(***************************************************************************)
(* Failure and recovery.                                                   *)
(***************************************************************************)
\* (an isolated node that reports only the VIDs of the failed port)
failure_flood_of_failed_port(st, cfg, k) ==
    IF ~cfg.isTopSpine /\ is_all_offered_ports_down(st)
    THEN SendEach(UpPorts(st, EntryPorts(st.vap)),
                  failure_update(get_accepted_VIDs_by_port_name(st.vap, port_name(k)), REACHABLE_OPTION))
    ELSE IF find_accepted_port_by_name(st.vap, port_name(k)) # NULL
    THEN SendEach(UpPorts(st, PortSeq(st)),
                  failure_update(get_accepted_VIDs_by_port_name(st.vap, port_name(k)),
                                 UNREACHABLE_OPTION))
    ELSE IF ~is_unreachable_and_reachable_empty(st.vop)
    THEN LET VIDs == get_unreachable_VIDs_from_offered_ports(st.vop)
         IN  IF VIDs # {}
             THEN SendEach(UpPorts(st, EntryPorts(st.vop)), failure_update(VIDs, UNREACHABLE_OPTION))
             ELSE << >>
    ELSE << >>

\* (a flood of a downstream failure that does not look whether a port is up)
failure_flood_to_all_ports(st, cfg, k) ==
    IF ~cfg.isTopSpine /\ is_all_offered_ports_down(st)
    THEN SendEach(UpPorts(st, EntryPorts(st.vap)),
                  failure_update(get_all_accepted_VIDs(st.vap), REACHABLE_OPTION))
    ELSE IF find_accepted_port_by_name(st.vap, port_name(k)) # NULL
    THEN SendEach(PortSeq(st),
                  failure_update(get_accepted_VIDs_by_port_name(st.vap, port_name(k)),
                                 UNREACHABLE_OPTION))
    ELSE IF ~is_unreachable_and_reachable_empty(st.vop)
    THEN LET VIDs == get_unreachable_VIDs_from_offered_ports(st.vop)
         IN  IF VIDs # {}
             THEN SendEach(UpPorts(st, EntryPorts(st.vop)), failure_update(VIDs, UNREACHABLE_OPTION))
             ELSE << >>
    ELSE << >>

\* (a flood of an upstream failure that goes out even when no VID is listed
\* unreachable)
failure_flood_without_VIDs(st, cfg, k) ==
    IF ~cfg.isTopSpine /\ is_all_offered_ports_down(st)
    THEN SendEach(UpPorts(st, EntryPorts(st.vap)),
                  failure_update(get_all_accepted_VIDs(st.vap), REACHABLE_OPTION))
    ELSE IF find_accepted_port_by_name(st.vap, port_name(k)) # NULL
    THEN SendEach(UpPorts(st, PortSeq(st)),
                  failure_update(get_accepted_VIDs_by_port_name(st.vap, port_name(k)),
                                 UNREACHABLE_OPTION))
    ELSE IF ~is_unreachable_and_reachable_empty(st.vop)
    THEN SendEach(UpPorts(st, EntryPorts(st.vop)),
                  failure_update(get_unreachable_VIDs_from_offered_ports(st.vop), UNREACHABLE_OPTION))
    ELSE << >>

\* the flood after port k was marked down (st is the state with k down)
failure_flood(st, cfg, k) ==
    IF ~cfg.isTopSpine /\ is_all_offered_ports_down(st)
    THEN SendEach(UpPorts(st, EntryPorts(st.vap)),
                  failure_update(get_all_accepted_VIDs(st.vap), REACHABLE_OPTION))
    ELSE IF find_accepted_port_by_name(st.vap, port_name(k)) # NULL
    THEN SendEach(UpPorts(st, PortSeq(st)),
                  failure_update(get_accepted_VIDs_by_port_name(st.vap, port_name(k)),
                                 UNREACHABLE_OPTION))
    ELSE IF ~is_unreachable_and_reachable_empty(st.vop)
    THEN LET VIDs == get_unreachable_VIDs_from_offered_ports(st.vop)
         IN  IF VIDs # {}
             THEN SendEach(UpPorts(st, EntryPorts(st.vop)), failure_update(VIDs, UNREACHABLE_OPTION))
             ELSE << >>
    ELSE << >>

\* (a recovery that marks the port up before it looks where to send)
recover_flood_after_up(st, cfg, k) ==
    LET up == [st EXCEPT !.cp[k].isUP = TRUE]
    IN  IF find_accepted_port_by_name(st.vap, port_name(k)) # NULL
        THEN IF is_all_offered_ports_down(st) /\ ~cfg.isTopSpine
             THEN Result(up, SendEach(UpPorts(up, EntryPorts(up.vap)),
                                      failure_update(get_all_accepted_VIDs(up.vap), REACHABLE_OPTION)))
             ELSE Result(up, SendEach(UpPorts(up, PortSeq(up)),
                                      recover_update(get_accepted_VIDs_by_port_name(st.vap, port_name(k)),
                                                     UNREACHABLE_OPTION)))
        ELSE IF is_all_offered_ports_down(st) /\ ~cfg.isLeaf
             THEN Result(up, SendEach(UpPorts(up, EntryPorts(up.vap)),
                                      recover_update({}, REACHABLE_OPTION)))
             ELSE Result(up, << >>)

\* the third counted keep-alive on port k: turn the port on again (st is the
\* state with k still down)
recover_flood(st, cfg, k) ==
    LET up == [st EXCEPT !.cp[k].isUP = TRUE]
    IN  IF find_accepted_port_by_name(st.vap, port_name(k)) # NULL
        THEN IF is_all_offered_ports_down(st) /\ ~cfg.isTopSpine
             THEN Result(up, SendEach(UpPorts(up, EntryPorts(up.vap)),
                                      failure_update(get_all_accepted_VIDs(up.vap), REACHABLE_OPTION)))
             ELSE Result(up, SendEach(UpPorts(st, PortSeq(st)),
                                      recover_update(get_accepted_VIDs_by_port_name(st.vap, port_name(k)),
                                                     UNREACHABLE_OPTION)))
        ELSE IF is_all_offered_ports_down(st) /\ ~cfg.isLeaf
             THEN Result(up, SendEach(UpPorts(up, EntryPorts(up.vap)),
                                      recover_update({}, REACHABLE_OPTION)))
             ELSE Result(up, << >>)

\* (a refresh that is skipped while the port is down)
update_receive_time_when_up(st, k, now) ==
    IF st.cp[k].isUP THEN [st EXCEPT !.cp[k].last_received_time = now] ELSE st

\* update receive time for this port
update_receive_time(st, k, now) == [st EXCEPT !.cp[k].last_received_time = now]

handle_receive_keep_alive(st, cfg, k, now) ==
    LET c0 == st.cp[k]
    IN  IF c0.fail_type = DETECT_FAIL
        THEN Result(st, << >>)
        ELSE LET c1 == [c0 EXCEPT !.fail_type = 0]
                 counted == /\ ~c1.isUP
                            /\ now - c1.last_received_time < DEAD_TIMER
                            /\ c1.continue_count < 3
                 c2 == IF counted THEN [c1 EXCEPT !.continue_count = @ + 1] ELSE c1
                 st2 == [st EXCEPT !.cp[k] = c2]
                 r == IF counted /\ c2.continue_count = 3
                      THEN recover_flood(st2, cfg, k)
                      ELSE Result(st2, << >>)
             IN  Result(update_receive_time(r.st, k, now), r.out)

\* (a handler that, for a VID listed reachable on the offered port, only
\* takes it out of the reachable sub-table instead of listing it unreachable)
handle_receive_failure_update_moving(st, cfg, k, m) ==
    LET a == find_accepted_port_by_name(st.vap, port_name(k))
        o == find_offered_port_by_name(st.vop, port_name(k))
    IN  IF a # NULL
        THEN LET st1 == [st EXCEPT !.vap[a].ut = add_to_unreachable_table(@, m.vids)]
                 others == SelectSeq(PortSeq(st1), LAMBDA j : j # k /\ st1.cp[j].isUP)
             IN  Result(st1, SendEach(others, failure_update(m.vids, UNREACHABLE_OPTION)))
        ELSE IF o # NULL
        THEN LET st1 == IF m.opt = UNREACHABLE_OPTION
                        THEN [st EXCEPT !.vop[o].rt = @ \ m.vids,
                                        !.vop[o].ut = add_to_unreachable_table(@, m.vids \ st.vop[o].rt)]
                        ELSE [st EXCEPT !.vop[o].rt = add_to_reachable_table(clear_VID_table(@), m.vids)]
                 VIDs == get_unreachable_VIDs_from_offered_ports(st1.vop)
             IN  IF cfg.isLeaf
                 THEN Result(st1, << >>)
                 ELSE IF ~is_unreachable_and_reachable_empty(st1.vop) /\ VIDs # {}
                 THEN Result(st1, SendEach(UpPorts(st1, EntryPorts(st1.vap)),
                                           failure_update(VIDs, UNREACHABLE_OPTION)))
                 ELSE Result(st1, << >>)
        ELSE Result(st, << >>)

\* (a handler that also returns the update on the accepted port it came in on)
handle_receive_failure_update_echoing(st, cfg, k, m) ==
    LET a == find_accepted_port_by_name(st.vap, port_name(k))
        o == find_offered_port_by_name(st.vop, port_name(k))
    IN  IF a # NULL
        THEN LET st1 == [st EXCEPT !.vap[a].ut = add_to_unreachable_table(@, m.vids)]
             IN  Result(st1, SendEach(UpPorts(st1, PortSeq(st1)),
                                      failure_update(m.vids, UNREACHABLE_OPTION)))
        ELSE IF o # NULL
        THEN LET st1 == IF m.opt = UNREACHABLE_OPTION
                        THEN [st EXCEPT !.vop[o].rt = clear_VID_table(@),
                                        !.vop[o].ut = add_to_unreachable_table(@, m.vids)]
                        ELSE [st EXCEPT !.vop[o].rt = add_to_reachable_table(clear_VID_table(@), m.vids)]
                 VIDs == get_unreachable_VIDs_from_offered_ports(st1.vop)
             IN  IF cfg.isLeaf
                 THEN Result(st1, << >>)
                 ELSE IF ~is_unreachable_and_reachable_empty(st1.vop) /\ VIDs # {}
                 THEN Result(st1, SendEach(UpPorts(st1, EntryPorts(st1.vap)),
                                           failure_update(VIDs, UNREACHABLE_OPTION)))
                 ELSE Result(st1, << >>)
        ELSE Result(st, << >>)

handle_receive_failure_update(st, cfg, k, m) ==
    LET a == find_accepted_port_by_name(st.vap, port_name(k))
        o == find_offered_port_by_name(st.vop, port_name(k))
    IN  IF a # NULL
        THEN LET st1 == [st EXCEPT !.vap[a].ut = add_to_unreachable_table(@, m.vids)]
                 others == SelectSeq(PortSeq(st1), LAMBDA j : j # k /\ st1.cp[j].isUP)
             IN  Result(st1, SendEach(others, failure_update(m.vids, UNREACHABLE_OPTION)))
        ELSE IF o # NULL
        THEN LET st1 == IF m.opt = UNREACHABLE_OPTION
                        THEN [st EXCEPT !.vop[o].rt = clear_VID_table(@),
                                        !.vop[o].ut = add_to_unreachable_table(@, m.vids)]
                        ELSE [st EXCEPT !.vop[o].rt = add_to_reachable_table(clear_VID_table(@), m.vids)]
                 VIDs == get_unreachable_VIDs_from_offered_ports(st1.vop)
             IN  IF cfg.isLeaf
                 THEN Result(st1, << >>)
                 ELSE IF ~is_unreachable_and_reachable_empty(st1.vop) /\ VIDs # {}
                 THEN Result(st1, SendEach(UpPorts(st1, EntryPorts(st1.vap)),
                                           failure_update(VIDs, UNREACHABLE_OPTION)))
                 ELSE Result(st1, << >>)
        ELSE Result(st, << >>)

\* (a handler that empties the unreachable sub-table of the accepted port
\* instead of taking the recovered VIDs out of it)
handle_receive_recover_update_clearing(st, cfg, k, m) ==
    LET a == find_accepted_port_by_name(st.vap, port_name(k))
        o == find_offered_port_by_name(st.vop, port_name(k))
        is_clean_before == is_unreachable_and_reachable_empty(st.vop)
    IN  IF a # NULL
        THEN LET st1 == [st EXCEPT !.vap[a].ut = clear_VID_table(@)]
                 others == SelectSeq(PortSeq(st1), LAMBDA j : j # k /\ st1.cp[j].isUP)
             IN  Result(st1, SendEach(others, recover_update(m.vids, UNREACHABLE_OPTION)))
        ELSE IF o # NULL /\ m.opt = UNREACHABLE_OPTION
        THEN LET st1 == [st EXCEPT !.vop[o].ut = remove_unreachable_VID_by_name(@, m.vids)]
                 is_clean_after == is_unreachable_and_reachable_empty(st1.vop)
                 down == UpPorts(st1, EntryPorts(st1.vap))
             IN  IF cfg.isLeaf
                 THEN Result(st1, << >>)
                 ELSE IF ~is_clean_before /\ ~is_clean_after
                 THEN Result(st1, SendEach(down, recover_update(m.vids, UNREACHABLE_OPTION)))
                 ELSE IF ~is_clean_before /\ is_clean_after
                 THEN Result(st1, SendEach(down,
                          recover_update(m.vids \cup get_unreachable_VIDs_from_offered_ports(st1.vop),
                                         UNREACHABLE_OPTION)))
                 ELSE Result(st1, << >>)
        ELSE IF o # NULL
        THEN LET st1 == [st EXCEPT !.vop[o].rt = clear_VID_table(@)]
                 is_clean_after == is_unreachable_and_reachable_empty(st1.vop)
                 VIDs == get_unreachable_VIDs_from_offered_ports(st1.vop)
             IN  IF cfg.isLeaf
                 THEN Result(st1, << >>)
                 ELSE IF ~is_clean_before /\ is_clean_after /\ VIDs # {}
                 THEN Result(st1, SendEach(UpPorts(st1, EntryPorts(st1.vap)),
                                           recover_update(VIDs, UNREACHABLE_OPTION)))
                 ELSE Result(st1, << >>)
        ELSE Result(st, << >>)

handle_receive_recover_update(st, cfg, k, m) ==
    LET a == find_accepted_port_by_name(st.vap, port_name(k))
        o == find_offered_port_by_name(st.vop, port_name(k))
        is_clean_before == is_unreachable_and_reachable_empty(st.vop)
    IN  IF a # NULL
        THEN LET st1 == [st EXCEPT !.vap[a].ut = remove_unreachable_VID_by_name(@, m.vids)]
                 others == SelectSeq(PortSeq(st1), LAMBDA j : j # k /\ st1.cp[j].isUP)
             IN  Result(st1, SendEach(others, recover_update(m.vids, UNREACHABLE_OPTION)))
        ELSE IF o # NULL /\ m.opt = UNREACHABLE_OPTION
        THEN LET st1 == [st EXCEPT !.vop[o].ut = remove_unreachable_VID_by_name(@, m.vids)]
                 is_clean_after == is_unreachable_and_reachable_empty(st1.vop)
                 down == UpPorts(st1, EntryPorts(st1.vap))
             IN  IF cfg.isLeaf
                 THEN Result(st1, << >>)
                 ELSE IF ~is_clean_before /\ ~is_clean_after
                 THEN Result(st1, SendEach(down, recover_update(m.vids, UNREACHABLE_OPTION)))
                 ELSE IF ~is_clean_before /\ is_clean_after
                 THEN Result(st1, SendEach(down,
                          recover_update(m.vids \cup get_unreachable_VIDs_from_offered_ports(st1.vop),
                                         UNREACHABLE_OPTION)))
                 ELSE Result(st1, << >>)
        ELSE IF o # NULL
        THEN LET st1 == [st EXCEPT !.vop[o].rt = clear_VID_table(@)]
                 is_clean_after == is_unreachable_and_reachable_empty(st1.vop)
                 VIDs == get_unreachable_VIDs_from_offered_ports(st1.vop)
             IN  IF cfg.isLeaf
                 THEN Result(st1, << >>)
                 ELSE IF ~is_clean_before /\ is_clean_after /\ VIDs # {}
                 THEN Result(st1, SendEach(UpPorts(st1, EntryPorts(st1.vap)),
                                           recover_update(VIDs, UNREACHABLE_OPTION)))
                 ELSE Result(st1, << >>)
        ELSE Result(st, << >>)


(***************************************************************************)
(* The periodic pass of the event loop over the control ports.             *)
(***************************************************************************)
\* (a hello timer that fires one comparison late)
emit_keep_alive_strictly(st, k, now, working_ports) ==
    IF now - st.cp[k].last_sent_time > HELLO_TIMER /\ check_port_is_alive(working_ports, k)
    THEN Result([st EXCEPT !.cp[k].last_sent_time = now], Send(k, keep_alive))
    ELSE Result(st, << >>)

\* emit a keep-alive when HELLO_TIMER has passed since the last frame sent;
\* the send fails on an interface the kernel no longer has
emit_keep_alive(st, k, now, working_ports) ==
    IF now - st.cp[k].last_sent_time >= HELLO_TIMER /\ check_port_is_alive(working_ports, k)
    THEN Result([st EXCEPT !.cp[k].last_sent_time = now], Send(k, keep_alive))
    ELSE Result(st, << >>)

\* (an immediate detection that forgets to reset the count of keep-alives)
mark_detect_fail_keeping_count(st, k) ==
    [st EXCEPT !.cp[k].isUP = FALSE,
               !.cp[k].fail_type = DETECT_FAIL]

\* (an immediate detection that forgets the VIDs learnt on the port)
mark_detect_fail_forgetting(st, k) ==
    [st EXCEPT !.cp[k].isUP = FALSE,
               !.cp[k].fail_type = DETECT_FAIL,
               !.cp[k].continue_count = 0,
               !.vap = [i \in 1..Len(st.vap) |->
                           IF st.vap[i].cp = k THEN [st.vap[i] EXCEPT !.vids = {}] ELSE st.vap[i]],
               !.vop = [i \in 1..Len(st.vop) |->
                           IF st.vop[i].cp = k THEN [st.vop[i] EXCEPT !.vids = {}] ELSE st.vop[i]]]

\* immediate detection: the port goes from up to down
mark_detect_fail(st, k) ==
    [st EXCEPT !.cp[k].isUP = FALSE,
               !.cp[k].fail_type = DETECT_FAIL,
               !.cp[k].continue_count = 0]

\* (a port that forgets to reset its count of keep-alives)
mark_miss_fail_keeping_count(st, k) ==
    [st EXCEPT !.cp[k].isUP = FALSE,
               !.cp[k].fail_type = MISS_FAIL]

\* a missing keep-alive: the port goes from up to down
mark_miss_fail(st, k) ==
    [st EXCEPT !.cp[k].continue_count = 0,
               !.cp[k].isUP = FALSE,
               !.cp[k].fail_type = MISS_FAIL]

\* (a dead timer that fires one comparison late)
dead_timer_exceeded_strictly(c, now) ==
    now - c.last_received_time > DEAD_TIMER /\ c.isUP

\* the dead timer has run out on an up port
dead_timer_exceeded(c, now) ==
    now - c.last_received_time >= DEAD_TIMER /\ c.isUP

\* the liveness checks run once a first keep-alive or data frame was received
immediate_detect_enabled(c) == c.last_received_time # 0

\* (a port that forgets its immediate failure whether or not the interface
\* is back)
clear_detect_fail_unconditionally(st, k, working_ports) ==
    IF st.cp[k].fail_type = DETECT_FAIL
    THEN [st EXCEPT !.cp[k].fail_type = 0]
    ELSE st

\* "port come back": the interface is present again
clear_detect_fail(st, k, working_ports) ==
    IF check_port_is_alive(working_ports, k) /\ st.cp[k].fail_type = DETECT_FAIL
    THEN [st EXCEPT !.cp[k].fail_type = 0]
    ELSE st

\* the rest of the body for a port that immediate detection left alone
check_dead_timer(st, cfg, k, now, working_ports) ==
    IF st.cp[k].fail_type # 0
    THEN Result(st, << >>)
    ELSE IF dead_timer_exceeded(st.cp[k], now)
    THEN Result(mark_miss_fail(st, k), failure_flood(mark_miss_fail(st, k), cfg, k))
    ELSE emit_keep_alive(st, k, now, working_ports)

\* the body of the loop over the control ports, for port k
check_control_port(st, cfg, k, now, working_ports) ==
    IF ~st.cp[k].start
    THEN Result(st, << >>)
    ELSE IF ~immediate_detect_enabled(st.cp[k])
    THEN emit_keep_alive(st, k, now, working_ports)
    ELSE IF ~check_port_is_alive(working_ports, k) /\ st.cp[k].isUP
    THEN Result(mark_detect_fail(st, k), failure_flood(mark_detect_fail(st, k), cfg, k))
    ELSE check_dead_timer(clear_detect_fail(st, k, working_ports), cfg, k, now, working_ports)

\* the frames o, then what the rest of the pass yields
then_rest(o, rest) == Result(rest.st, o \o rest.out)

RECURSIVE periodic_pass(_, _, _, _, _)

\* r is what the body yielded for port k: go on with port k + 1
pass_from(r, cfg, k, now, working_ports) ==
    then_rest(r.out, periodic_pass(r.st, cfg, k + 1, now, working_ports))

\* the loop over the control ports from port k on
periodic_pass(st, cfg, k, now, working_ports) ==
    IF k > Len(st.cp)
    THEN Result(st, << >>)
    ELSE pass_from(check_control_port(st, cfg, k, now, working_ports), cfg, k, now, working_ports)

\* dispatch on the type of the MTP frame m received on port k
dispatch(st, cfg, k, m, now) ==
    CASE m.type = MTP_TYPE_HELLONR_MSG -> handle_receive_hello_NR(st, cfg, k, m)
      [] m.type = MTP_TYPE_JOIN_REQ -> handle_receive_join_req(st, cfg, k, m)
      [] m.type = MTP_TYPE_JOIN_RES -> handle_receive_join_res(st, cfg, k, m)
      [] m.type = MTP_TYPE_JOIN_ACK -> handle_receive_join_ack(st, cfg, k, m)
      [] m.type = MTP_TYPE_START_HELLO -> handle_receive_start_hello(st, cfg, k)
      [] m.type = MTP_TYPE_DATA_MSG -> handle_receive_data_msg(st, cfg, k, m, now)
      [] m.type = MTP_TYPE_KEEP_ALIVE -> handle_receive_keep_alive(st, cfg, k, now)
      [] m.type = MTP_TYPE_FAILURE_UPDATE -> handle_receive_failure_update(st, cfg, k, m)
      [] m.type = MTP_TYPE_RECOVER_UPDATE -> handle_receive_recover_update(st, cfg, k, m)
      [] OTHER -> Result(st, << >>)

\* the receive half of a loop iteration: the MTP frame m received on port k
\* (or NoFrame), then on a leaf the IPv4 packet ipIn of a server (or NoFrame)
receive_step(st, cfg, k, m, ipIn, now) ==
    LET r1 == IF m = NoFrame THEN Result(st, << >>) ELSE dispatch(st, cfg, k, m, now)
        r2 == IF cfg.isLeaf /\ ipIn # NoFrame
              THEN handle_receive_from_server(r1.st, cfg, ipIn.ip, now)
              ELSE Result(r1.st, << >>)
    IN  Result(r2.st, r1.out \o r2.out)

(***************************************************************************)
(* State.                                                                  *)
(***************************************************************************)
VARIABLES
    cp_head,        \* per node: the control ports
    vap_head,       \* per node: the accepted-VID table
    vop_head,       \* per node: the offered-VID table
    pc,             \* per node: "recv" at the top of the loop, "pass" before the periodic pass
    current_time,   \* the clock, in ms
    working_ports,  \* per node: the interfaces the kernel reports
    inbox,          \* per interface: the frames the kernel holds for the socket, oldest first
    rcvd,           \* what the last receive step of a node took in
    sent,           \* the frames the last step of a node wrote
    self,           \* the daemon the environment drives ("net": the whole fabric runs)
    flap,           \* the port of that daemon whose link is unreliable
    boot            \* per node: how far main has come, and mtpConfig as it stands

vars == << cp_head, vap_head, vop_head, pc, current_time, working_ports, inbox, rcvd, sent, self, flap, boot >>

state(n) == [cp |-> cp_head[n], vap |-> vap_head[n], vop |-> vop_head[n]]

\* the clock at start-up; a timestamp of 0 means "never"
StartTime == DEAD_TIMER + HELLO_TIMER

MaxTime == StartTime + (MaxTicks * HELLO_TIMER)

\* the neighbour on port k of node n is one tier up
IsUpper(n, k) == mtpConfig(Peer(<< n, k >>)[1]).tier > mtpConfig(n).tier

\* the Hello-NR messages a leaf broadcasts at start-up, as sent by leaf n
StartupHellos(n) ==
    IF mtpConfig(n).isLeaf
    THEN SendEach([k \in 1..NumPorts(n) |-> k], hello_NR(mtpConfig(n).tier, {getRootVID(n)}))
    ELSE << >>

\* main of a daemon that has reached the event loop with the configuration cfg
Booted(cfg) == [at |-> "loop", status |-> 0, failed |-> "none", config |-> cfg]

InitTables ==
    /\ cp_head = [n \in Node |-> [k \in 1..NumPorts(n) |-> NewControlPort]]
    /\ vap_head = [n \in Node |-> << >>]
    /\ vop_head = [n \in Node |-> << >>]
    /\ pc = [n \in Node |-> "recv"]
    /\ current_time = StartTime
    /\ working_ports = [n \in Node |-> 1..NumPorts(n)]
    /\ rcvd = [node |-> "none", port |-> 0, frame |-> NoFrame, ip |-> NoFrame]

(***************************************************************************)
(* One daemon and its environment: the neighbours are replaced by an       *)
(* environment that hands the daemon, in any order, any frame a neighbour  *)
(* of that tier can send on the link.                                      *)
(***************************************************************************)
\* the daemons driven this way: one of each tier
Bench == {"L1", "T1", "S1"}

EnvVIDs == {<< 1, 1 >>, << 2, 1 >>}

EnvVIDSets == {{v} : v \in EnvVIDs}

\* last two octets of source and destination address of the tenant packets
EnvIP == {<< 1, 5, 2, 7 >>, << 2, 5, 1, 8 >>}

EnvPackets == {ipv4_packet(b) : b \in EnvIP}

EnvData == {data_msg(b[1], b[3], b) : b \in EnvIP}

\* the handshake frames a neighbour can send to port k of node n
EnvHandshake(n, k) ==
    IF IsUpper(n, k)
    THEN {hello_NR(mtpConfig(n).tier + 1, V) : V \in EnvVIDSets}
         \cup {Frame(MTP_TYPE_JOIN_REQ, 0, 0, V, 0, 0, << >>) : V \in {{getRootVID(n)}} \cup EnvVIDSets}
         \cup {Frame(MTP_TYPE_JOIN_ACK, 0, 0, V, 0, 0, << >>) : V \in EnvVIDSets}
    ELSE {hello_NR(mtpConfig(n).tier - 1, V) : V \in EnvVIDSets}
         \cup {Frame(MTP_TYPE_JOIN_RES, 0, 0, V, 0, 0, << >>) : V \in EnvVIDSets}
         \cup {Frame(MTP_TYPE_START_HELLO, 0, 0, {}, 0, 0, << >>)}

\* the failure and recover updates a neighbour can send to port k of node n
EnvUpdates(n, k) ==
    IF IsUpper(n, k)
    THEN {failure_update(V, o) : V \in EnvVIDSets, o \in {REACHABLE_OPTION, UNREACHABLE_OPTION}}
         \cup {recover_update(V, UNREACHABLE_OPTION) : V \in EnvVIDSets}
         \cup {recover_update({}, REACHABLE_OPTION)}
    ELSE {failure_update(V, UNREACHABLE_OPTION) : V \in EnvVIDSets}
         \cup {recover_update(V, UNREACHABLE_OPTION) : V \in EnvVIDSets}

InitNode(B) ==
    /\ InitTables
    /\ boot = [n \in Node |-> Booted(mtpConfig(n))]
    /\ self \in B
    /\ flap \in 1..NumPorts(self)
    /\ inbox = [i \in Iface |-> << >>]
    /\ sent = [node |-> self, out |-> StartupHellos(self)]

\* the receive half of a loop iteration of the daemon: an MTP frame of
\* Frames[k] on a port k or none, and on a leaf an IPv4 packet of Packets or
\* none
ReceiveEnv(Frames, Packets) ==
    /\ self \in Node
    /\ boot[self].at = "loop"
    /\ pc[self] = "recv"
    /\ \E k \in 1..NumPorts(self) :
       \E m \in Frames[k] \cup {NoFrame} :
       \E ipIn \in (IF boot[self].config.isLeaf THEN Packets ELSE {}) \cup {NoFrame} :
       \E r \in {receive_step(state(self), boot[self].config, k, m, ipIn, current_time)} :
              /\ (m = NoFrame => k = 1)
              /\ cp_head' = [cp_head EXCEPT ![self] = r.st.cp]
              /\ vap_head' = [vap_head EXCEPT ![self] = r.st.vap]
              /\ vop_head' = [vop_head EXCEPT ![self] = r.st.vop]
              /\ rcvd' = [node |-> self, port |-> IF m = NoFrame THEN 0 ELSE k, frame |-> m, ip |-> ipIn]
              /\ sent' = [node |-> self, out |-> r.out]
    /\ pc' = [pc EXCEPT ![self] = "pass"]
    /\ UNCHANGED << current_time, working_ports, inbox, self, flap, boot >>

\* the periodic pass that ends the iteration
PassEnv ==
    /\ self \in Node
    /\ boot[self].at = "loop"
    /\ pc[self] = "pass"
    /\ \E r \in {periodic_pass(state(self), boot[self].config, 1, current_time, working_ports[self])} :
           /\ cp_head' = [cp_head EXCEPT ![self] = r.st.cp]
           /\ vap_head' = [vap_head EXCEPT ![self] = r.st.vap]
           /\ vop_head' = [vop_head EXCEPT ![self] = r.st.vop]
           /\ sent' = [node |-> self, out |-> r.out]
    /\ rcvd' = [node |-> "none", port |-> 0, frame |-> NoFrame, ip |-> NoFrame]
    /\ pc' = [pc EXCEPT ![self] = "recv"]
    /\ UNCHANGED << current_time, working_ports, inbox, self, flap, boot >>

\* time passes between two iterations
Tick ==
    /\ \A n \in Node : pc[n] = "recv"
    /\ current_time < MaxTime
    /\ current_time' = current_time + HELLO_TIMER
    /\ UNCHANGED << cp_head, vap_head, vop_head, pc, working_ports, inbox, rcvd, sent, self, flap, boot >>

\* the interface of the unreliable link disappears from, or comes back to,
\* the kernel's list
InterfaceChange ==
    /\ self \in Node
    /\ pc[self] = "recv"
    /\ working_ports' = [working_ports EXCEPT ![self] =
                            IF flap \in @ THEN @ \ {flap} ELSE @ \cup {flap}]
    /\ UNCHANGED << cp_head, vap_head, vop_head, pc, current_time, inbox, rcvd, sent, self, flap, boot >>

\* the frames that complete the handshake on port k of node n
EnvJoin(n, k) ==
    {f \in EnvHandshake(n, k) :
        \/ f.type \in {MTP_TYPE_JOIN_RES, MTP_TYPE_JOIN_ACK} /\ f.vids = {<< 1, 1 >>}
        \/ f.type = MTP_TYPE_START_HELLO}

(***************************************************************************)
(* SpecPort: a daemon whose links complete the handshake, one of them      *)
(* unreliable: its keep-alives come at any time or not at all and its      *)
(* interface may vanish and come back.                                     *)
(***************************************************************************)
PortFrames(n, k) == EnvJoin(n, k) \cup (IF k = flap THEN {keep_alive} ELSE {})

ReceivePort == ReceiveEnv([k \in 1..NumPorts(self) |-> PortFrames(self, k)], {})

NextPort == ReceivePort \/ PassEnv \/ Tick \/ InterfaceChange

SpecPort == InitNode(Bench) /\ [][NextPort]_vars

(***************************************************************************)
(* Properties of the control ports (SpecPort).                             *)
(***************************************************************************)
Range(q) == {q[i] : i \in 1..Len(q)}

\* the step of node n is its periodic pass
PassStep(n) == pc[n] = "pass" /\ pc'[n] = "recv"

\* the ports of node n with an accepted entry, resp. an offered entry
AcceptedPorts(n) == Range(EntryPorts(vap_head[n]))

OfferedPorts(n) == Range(EntryPorts(vop_head[n]))

\* what the failure flood has to send when port k of node n is marked down
\* in a pass that finds the other ports as they are
FloodOf(n, k) ==
    LET up == {j \in 1..NumPorts(n) : j # k /\ cp_head[n][j].isUP}
        dirty == \E i \in 1..Len(vop_head[n]) : vop_head[n][i].rt # {} \/ vop_head[n][i].ut # {}
        blocked == UNION {vop_head[n][i].ut : i \in 1..Len(vop_head[n])}
    IN  IF ~mtpConfig(n).isTopSpine /\ OfferedPorts(n) \cap up = {}
        THEN {[port |-> j, frame |-> failure_update(get_all_accepted_VIDs(vap_head[n]), REACHABLE_OPTION)]
                 : j \in AcceptedPorts(n) \cap up}
        ELSE IF k \in AcceptedPorts(n)
        THEN {[port |-> j, frame |-> failure_update(get_accepted_VIDs_by_port_name(vap_head[n], port_name(k)),
                                                     UNREACHABLE_OPTION)] : j \in up}
        ELSE IF dirty /\ blocked # {}
        THEN {[port |-> j, frame |-> failure_update(blocked, UNREACHABLE_OPTION)] : j \in OfferedPorts(n) \cap up}
        ELSE {}

\* C1: every control port has continue_count in 0..3, and a port whose
\* continue_count is 3 is up with no failure recorded.
C1_CountInvariant ==
    \A n \in Node : \A k \in 1..NumPorts(n) :
        /\ cp_head[n][k].continue_count \in 0..3
        /\ (cp_head[n][k].continue_count = 3
               => cp_head[n][k].isUP /\ cp_head[n][k].fail_type = 0)

\* a port came back up on its third counted keep-alive, after it had failed
C1_Witness ==
    \E n \in Node : \E k \in 1..NumPorts(n) :
        /\ cp_head[n][k].continue_count = 3
        /\ cp_head[n][k].isUP
        /\ pc[n] = "recv"

\* C9 as claimed: a periodic pass that finds a started, up port with a
\* last_received_time > 0 that lies DEAD_TIMER or more in the past marks the
\* port down with MISS_FAIL and resets its continue_count.
C9_Original ==
    [][\A n \in Node : \A k \in 1..NumPorts(n) :
          (/\ PassStep(n)
           /\ cp_head[n][k].start /\ cp_head[n][k].isUP
           /\ cp_head[n][k].last_received_time > 0
           /\ current_time - cp_head[n][k].last_received_time >= DEAD_TIMER)
          => (/\ ~cp_head'[n][k].isUP
              /\ cp_head'[n][k].fail_type = MISS_FAIL
              /\ cp_head'[n][k].continue_count = 0)]_vars

\* C9 as amended: a periodic pass that finds a started, up port with no
\* failure recorded, whose interface the kernel still reports and whose
\* last_received_time > 0 lies DEAD_TIMER or more in the past, marks the port
\* down with MISS_FAIL, resets its continue_count and sends the frames of the
\* failure flood in that same pass.
C9_MissFail ==
    [][\A n \in Node : \A k \in 1..NumPorts(n) :
          (/\ PassStep(n)
           /\ cp_head[n][k].start /\ cp_head[n][k].isUP
           /\ cp_head[n][k].fail_type = 0
           /\ k \in working_ports[n]
           /\ cp_head[n][k].last_received_time > 0
           /\ current_time - cp_head[n][k].last_received_time >= DEAD_TIMER)
          => (/\ ~cp_head'[n][k].isUP
              /\ cp_head'[n][k].fail_type = MISS_FAIL
              /\ cp_head'[n][k].continue_count = 0
              /\ FloodOf(n, k) \subseteq Range(sent'.out))]_vars

\* a pass has just marked a port MISS_FAIL and flooded the failure
C9_Witness ==
    \E n \in Node : \E k \in 1..NumPorts(n) :
        /\ pc[n] = "recv" /\ sent.node = n
        /\ cp_head[n][k].fail_type = MISS_FAIL /\ ~cp_head[n][k].isUP
        /\ current_time - cp_head[n][k].last_received_time = DEAD_TIMER
        /\ \E x \in Range(sent.out) : x.frame.type = MTP_TYPE_FAILURE_UPDATE

\* C10 as claimed: a periodic pass that finds a started, up port whose
\* interface the kernel no longer reports marks the port down with
\* DETECT_FAIL and resets its continue_count.
C10_Original ==
    [][\A n \in Node : \A k \in 1..NumPorts(n) :
          (/\ PassStep(n)
           /\ cp_head[n][k].start /\ cp_head[n][k].isUP
           /\ k \notin working_ports[n])
          => (/\ ~cp_head'[n][k].isUP
              /\ cp_head'[n][k].fail_type = DETECT_FAIL
              /\ cp_head'[n][k].continue_count = 0)]_vars

\* C10 as amended: a periodic pass that finds a started, up port that has
\* received a keep-alive or data frame before (last_received_time is not 0)
\* and whose interface the kernel no longer reports marks the port down with
\* DETECT_FAIL, resets its continue_count and sends the frames of the failure
\* flood in that same pass.
C10_DetectFail ==
    [][\A n \in Node : \A k \in 1..NumPorts(n) :
          (/\ PassStep(n)
           /\ cp_head[n][k].start /\ cp_head[n][k].isUP
           /\ cp_head[n][k].last_received_time # 0
           /\ k \notin working_ports[n])
          => (/\ ~cp_head'[n][k].isUP
              /\ cp_head'[n][k].fail_type = DETECT_FAIL
              /\ cp_head'[n][k].continue_count = 0
              /\ FloodOf(n, k) \subseteq Range(sent'.out))]_vars

\* a pass has just marked a port DETECT_FAIL and flooded the failure
C10_Witness ==
    \E n \in Node : \E k \in 1..NumPorts(n) :
        /\ pc[n] = "recv" /\ sent.node = n
        /\ cp_head[n][k].fail_type = DETECT_FAIL /\ ~cp_head[n][k].isUP
        /\ k \notin working_ports[n]
        /\ \E x \in Range(sent.out) : x.frame.type = MTP_TYPE_FAILURE_UPDATE

(***************************************************************************)
(* SpecFlood: a daemon whose links complete the handshake and whose        *)
(* neighbours then report failures and recoveries in any order.            *)
(***************************************************************************)
FloodFrames(n, k) == EnvJoin(n, k) \cup EnvUpdates(n, k)

ReceiveFlood == ReceiveEnv([k \in 1..NumPorts(self) |-> FloodFrames(self, k)], {})

NextFlood == ReceiveFlood \/ PassEnv

SpecFlood == InitNode(Bench) /\ [][NextFlood]_vars

\* C2: on every offered port no VID is listed both in the reachable and in
\* the unreachable sub-table, whatever failure and recover updates arrived.
C2_Disjoint ==
    \A n \in Node : \A i \in 1..Len(vop_head[n]) :
        vop_head[n][i].rt \cap vop_head[n][i].ut = {}

\* a failure update with the reachable option has just been handled on an
\* offered port that already listed unreachable VIDs
C2_Witness ==
    \E n \in Node : \E i \in 1..Len(vop_head[n]) :
        /\ rcvd.node = n /\ rcvd.port = vop_head[n][i].cp
        /\ rcvd.frame.type = MTP_TYPE_FAILURE_UPDATE
        /\ rcvd.frame.opt = REACHABLE_OPTION
        /\ vop_head[n][i].ut # {}
        /\ vop_head[n][i].rt # {}

(***************************************************************************)
(* SpecNet: the whole fabric.  Every daemon runs its loop; a frame written *)
(* to an interface is queued, in order, at the interface at the other end  *)
(* of the link.  The daemons share nothing but these frames, so one loop   *)
(* iteration (receive, handle, periodic pass) is one step.  No link fails  *)
(* and the clock does not advance.                                         *)
(***************************************************************************)
\* the frames the leaves broadcast before they enter the loop, as queued at
\* the neighbours
InitNet ==
    /\ InitTables
    /\ boot = [n \in Node |-> Booted(mtpConfig(n))]
    /\ self = "net"
    /\ flap = 0
    /\ inbox = [i \in Iface |->
                  IF mtpConfig(Peer(i)[1]).isLeaf
                  THEN << hello_NR(mtpConfig(Peer(i)[1]).tier, {getRootVID(Peer(i)[1])}) >>
                  ELSE << >>]
    /\ sent = [node |-> "none", out |-> << >>]

\* the frames of out that node n wrote to port k, in order
WrittenTo(out, k) ==
    LET on == SelectSeq(out, LAMBDA x : x.port = k)
    IN  [j \in 1..Len(on) |-> on[j].frame]

\* the interface of the one link that fails
FailedIface == << "T1", 1 >>

\* the link of interface i carries frames: the kernels of both ends have
\* their interface, and the link is not the one that loses its frames
\* (flap = 3)
LinkPresent(i) ==
    /\ i[2] \in working_ports[i[1]]
    /\ Peer(i)[2] \in working_ports[Peer(i)[1]]
    /\ ~(flap = 3 /\ i \in {FailedIface, Peer(FailedIface)})

\* the queues once node n has taken the head of the queue of port k (k = 0:
\* nothing) and written out; what is written to a link that does not carry
\* frames is lost
Deliver(n, k, out) ==
    [i \in Iface |->
        IF i[1] = n /\ i[2] = k THEN Tail(inbox[i])
        ELSE IF Peer(i)[1] = n /\ LinkPresent(i) THEN inbox[i] \o WrittenTo(out, Peer(i)[2])
        ELSE inbox[i]]

\* one iteration of the loop of node n: the oldest frame of some port, or no
\* frame if none waits
LoopNet(n) ==
    /\ self = "net"
    /\ \E k \in 0..NumPorts(n) :
          /\ IF k = 0
             THEN \A j \in 1..NumPorts(n) : inbox[<< n, j >>] = << >>
             ELSE inbox[<< n, k >>] # << >>
          /\ \E m \in (IF k = 0 THEN {NoFrame} ELSE {Head(inbox[<< n, k >>])}) :
             \E r1 \in {receive_step(state(n), mtpConfig(n), IF k = 0 THEN 1 ELSE k, m, NoFrame, current_time)} :
             \E r2 \in {periodic_pass(r1.st, mtpConfig(n), 1, current_time, working_ports[n])} :
                /\ cp_head' = [cp_head EXCEPT ![n] = r2.st.cp]
                /\ vap_head' = [vap_head EXCEPT ![n] = r2.st.vap]
                /\ vop_head' = [vop_head EXCEPT ![n] = r2.st.vop]
                /\ inbox' = Deliver(n, k, r1.out \o r2.out)
    /\ UNCHANGED << pc, current_time, working_ports, rcvd, sent, self, flap, boot >>

NextNet == \E n \in Node : LoopNet(n)

SpecNet == InitNet /\ [][NextNet]_vars

\* the daemons keep running their loops: as long as some daemon has an
\* iteration that changes something, an iteration is taken
SpecNetFair == SpecNet /\ WF_vars(NextNet)

(***************************************************************************)
(* Properties of the handshake (SpecNet).                                  *)
(***************************************************************************)
HasAccepted(n, k) == find_accepted_port_by_name(vap_head[n], port_name(k)) # NULL

HasOffered(n, k) == find_offered_port_by_name(vop_head[n], port_name(k)) # NULL

\* C3: a control port that was started has an accepted entry or an offered
\* entry, and no control port has both.  (start is never cleared, so a port
\* that was ever started is a port that is started.)
C3_OneTable ==
    \A n \in Node : \A k \in 1..NumPorts(n) :
        /\ cp_head[n][k].start => (HasAccepted(n, k) \/ HasOffered(n, k))
        /\ ~(HasAccepted(n, k) /\ HasOffered(n, k))

\* the two ends of a link are started, the lower with an offered entry, the
\* upper with an accepted entry
C3_Witness ==
    \E l \in Links :
        /\ cp_head[l[1][1]][l[1][2]].start /\ HasOffered(l[1][1], l[1][2])
        /\ cp_head[l[2][1]][l[2][2]].start /\ HasAccepted(l[2][1], l[2][2])

\* the handshake is complete on link l
Complete(l) ==
    /\ HasOffered(l[1][1], l[1][2])
    /\ HasAccepted(l[2][1], l[2][2])
    /\ \A e \in {l[1], l[2]} : cp_head[e[1]][e[2]].isUP /\ cp_head[e[1]][e[2]].start

HandshakeComplete == \A l \in Links : Complete(l)

\* C7: with frames delivered in order and no failure, the handshake that the
\* leaf's Hello-NR starts eventually completes on every link, and stays so:
\* the lower end holds an offered entry, the upper end an accepted entry, and
\* both ports are up and started.
C7_HandshakeCompletes == <>[]HandshakeComplete

\* the handshake is complete up to the top spines
C7_Witness == HandshakeComplete /\ \A i \in Iface : inbox[i] = << >>

\* the VIDs a node advertises in its Hello-NR: a leaf its root VID, a spine
\* the VIDs it accepted
Advertised(n) ==
    IF mtpConfig(n).isLeaf THEN {getRootVID(n)} ELSE get_all_accepted_VIDs(vap_head[n])

\* C8: every VID of an accepted entry is a VID the neighbour below
\* advertised, followed by the number of the neighbour's port on the link
\* (the port on which it received the Join-Req); so a VID accepted at tier t
\* is the leaf's root VID followed by t - 1 port numbers.
C8_VIDExtension ==
    \A n \in Node : \A i \in 1..Len(vap_head[n]) : \A v \in vap_head[n][i].vids :
        LET below == Peer(<< n, vap_head[n][i].cp >>)
        IN  /\ \E w \in Advertised(below[1]) : v = w \o << below[2] >>
            /\ Len(v) = mtpConfig(n).tier
            /\ << v[1] >> = getRootVID("L1")

\* a top spine accepted the leaf's VID over two hops, through the second
\* port of the leaf
C8_Witness ==
    \E i \in 1..Len(vap_head["S1"]) : << 1, 2, 2 >> \in vap_head["S1"][i].vids

(***************************************************************************)
(* SpecData: a daemon that forwards tenant traffic while its links         *)
(* complete the handshake, one interface vanishes and comes back, and the  *)
(* neighbours report VIDs unreachable or reachable.                        *)
(***************************************************************************)
DataFrames(n, k) ==
    EnvJoin(n, k) \cup EnvData
    \cup (IF IsUpper(n, k)
          THEN {failure_update({<< 2, 1 >>}, UNREACHABLE_OPTION),
                failure_update({<< 1, 1 >>}, REACHABLE_OPTION)}
          ELSE {failure_update({<< 1, 1 >>}, UNREACHABLE_OPTION)})

ReceiveData == ReceiveEnv([k \in 1..NumPorts(self) |-> DataFrames(self, k)], EnvPackets)

NextData == ReceiveData \/ PassEnv \/ InterfaceChange

SpecData == InitNode(Bench) /\ [][NextData]_vars

\* the step of node n is the receive half of an iteration
ReceiveStep(n) == pc[n] = "recv" /\ pc'[n] = "pass"

\* the DATA_MSG transmissions among those of out
DataSent(out) == {x \in Range(out) : x.frame.type = MTP_TYPE_DATA_MSG}

\* C4: a DATA_MSG is only ever written to a control port that is up at that
\* moment, be it by a leaf that encapsulates or by a spine that forwards
\* through an accepted or an offered port.  (No handler of the receive half
\* takes a port down, and the frame handled before a leaf encapsulates may
\* bring one up: the port is up at the moment of sending if and only if it
\* is up when the receive half ends.)
C4_DataOnUpPorts ==
    [][\A n \in Node :
          ReceiveStep(n) =>
              \A x \in DataSent(sent'.out) :
                  /\ x.port \in 1..NumPorts(n)
                  /\ cp_head'[n][x.port].isUP]_vars

\* a spine has just forwarded a DATA_MSG while another of its ports, which
\* holds an entry, is down
C4_Witness ==
    \E n \in Node :
        /\ pc[n] = "pass" /\ sent.node = n /\ ~mtpConfig(n).isLeaf
        /\ DataSent(sent.out) # {}
        /\ \E k \in AcceptedPorts(n) \cup OfferedPorts(n) : ~cp_head[n][k].isUP

\* the unreachable sub-table ut lists the destination VID d
Lists(ut, d) == \E v \in ut : IsPrefix(<< d >>, v)

\* C5: a spine writes a received DATA_MSG to an accepted port only if the
\* port is up and the unreachable sub-table of its entry does not list the
\* destination VID.
C5_Original ==
    [][\A n \in Node :
          (ReceiveStep(n) /\ ~mtpConfig(n).isLeaf /\ rcvd'.frame.type = MTP_TYPE_DATA_MSG)
          => \A x \in DataSent(sent'.out) : \A i \in 1..Len(vap_head[n]) :
                 vap_head[n][i].cp = x.port
                 => /\ cp_head[n][x.port].isUP
                    /\ ~Lists(vap_head[n][i].ut, x.frame.dest_VID)]_vars

\* a spine has just forwarded a DATA_MSG through an accepted port whose
\* unreachable sub-table is not empty
C5_Witness ==
    \E n \in Node : \E i \in 1..Len(vap_head[n]) :
        /\ pc[n] = "pass" /\ sent.node = n /\ ~mtpConfig(n).isLeaf
        /\ vap_head[n][i].ut # {}
        /\ \E x \in DataSent(sent.out) : x.port = vap_head[n][i].cp

\* the accepted entries of node n whose VIDs contain the destination VID d
Containing(n, d) ==
    {i \in 1..Len(vap_head[n]) : \E v \in vap_head[n][i].vids : IsPrefix(<< d >>, v)}

\* the offered ports of node n that are available for destination VID d, in
\* list order: up, d not listed unreachable, reachable sub-table empty or
\* listing d
Available(n, d) ==
    LET ok(e) == /\ cp_head[n][e.cp].isUP
                 /\ ~Lists(e.ut, d)
                 /\ (e.rt = {} \/ \E v \in e.rt : IsPrefix(<< d >>, v))
    IN  EntryPorts(SelectSeq(vop_head[n], ok))

\* what the multipath selection has to send for the DATA_MSG m: nothing if no
\* offered port is available, else m on the port the hash picks
PushedUp(n, m) ==
    LET avail == Available(n, m.dest_VID)
    IN  IF avail = << >>
        THEN << >>
        ELSE Send(avail[U32Mod(jenkins_one_at_a_time_hash(m.ip), Len(avail)) + 1], m)

KeepAliveStep(n, k) ==
    /\ ReceiveStep(n)
    /\ rcvd'.node = n /\ rcvd'.port = k
    /\ rcvd'.frame.type = MTP_TYPE_KEEP_ALIVE

\* the keep-alive that arrives now on the port c is late
Late(c) == current_time - c.last_received_time >= DEAD_TIMER

\* the KEEP_ALIVE transmissions among those of out
KeepAlivesSent(out) == {x \in Range(out) : x.frame.type = MTP_TYPE_KEEP_ALIVE}

\* C11: continue_count counts consecutive on-time keep-alives.  A keep-alive
\* received on a started port that is down (and does not ignore keep-alives) DEAD_TIMER
\* or more after the previous reception restarts the count at 0 and leaves
\* the port down; the keep-alive that brings the port up is on time and is
\* the third counted one.
C11_Original ==
    [][\A n \in Node : \A k \in 1..NumPorts(n) :
          (/\ KeepAliveStep(n, k)
           /\ cp_head[n][k].start /\ ~cp_head[n][k].isUP
           /\ cp_head[n][k].fail_type # DETECT_FAIL)
          => (/\ Late(cp_head[n][k])
                  => (cp_head'[n][k].continue_count = 0 /\ ~cp_head'[n][k].isUP)
              /\ cp_head'[n][k].isUP
                  => (~Late(cp_head[n][k]) /\ cp_head[n][k].continue_count = 2))]_vars

\* a keep-alive has just been taken in on a down port that had counted two
\* keep-alives before, and the port is still down: the keep-alive was late
C11_Witness ==
    \E n \in Node : \E k \in 1..NumPorts(n) :
        /\ rcvd.node = n /\ rcvd.port = k
        /\ rcvd.frame.type = MTP_TYPE_KEEP_ALIVE
        /\ cp_head[n][k].start
        /\ ~cp_head[n][k].isUP /\ cp_head[n][k].fail_type = 0
        /\ cp_head[n][k].continue_count = 2
        /\ cp_head[n][k].last_received_time = current_time
        /\ current_time = MaxTime

\* C12 as claimed, for the ports whose interface is present: every
\* KEEP_ALIVE taken in on a control port sets the port's last_received_time
\* to the current time.
C12_Original ==
    [][\A n \in Node : \A k \in 1..NumPorts(n) :
          (KeepAliveStep(n, k) /\ k \in working_ports[n])
          => cp_head'[n][k].last_received_time = current_time]_vars

\* C12 as amended: a KEEP_ALIVE taken in on a control port whose fail_type is
\* not DETECT_FAIL sets the port's last_received_time to the current time,
\* be the port up or down; on a port whose fail_type is DETECT_FAIL it
\* changes nothing.
C12_Refresh ==
    [][\A n \in Node : \A k \in 1..NumPorts(n) :
          KeepAliveStep(n, k)
          => IF cp_head[n][k].fail_type = DETECT_FAIL
             THEN cp_head'[n][k] = cp_head[n][k]
             ELSE cp_head'[n][k].last_received_time = current_time]_vars

\* a keep-alive has just refreshed the receive time of a port that is down
C12_Witness ==
    \E n \in Node : \E k \in 1..NumPorts(n) :
        /\ rcvd.node = n /\ rcvd.port = k
        /\ rcvd.frame.type = MTP_TYPE_KEEP_ALIVE
        /\ ~cp_head[n][k].isUP /\ cp_head[n][k].start
        /\ cp_head[n][k].last_received_time = current_time
        /\ current_time > StartTime

UpdateVIDSets == EnvVIDSets \cup {EnvVIDs}

UpdateOptions == {REACHABLE_OPTION, UNREACHABLE_OPTION}

\* the state of node n once it has handled the FAILURE_UPDATE m on port k,
\* and once it has then handled the RECOVER_UPDATE m
AfterFailure(st, n, k, m) == handle_receive_failure_update(st, mtpConfig(n), k, m).st

AfterRecover(st, n, k, m) == handle_receive_recover_update(st, mtpConfig(n), k, m).st

\* the reachable and unreachable sub-tables of port k
PortSubTables(st, k) ==
    LET a == find_accepted_port_by_name(st.vap, port_name(k))
        o == find_offered_port_by_name(st.vop, port_name(k))
    IN  [accepted_ut |-> IF a # NULL THEN st.vap[a].ut ELSE {},
         offered_rt |-> IF o # NULL THEN st.vop[o].rt ELSE {},
         offered_ut |-> IF o # NULL THEN st.vop[o].ut ELSE {}]

\* C15: handling the same FAILURE_UPDATE a second time on the same port
\* leaves the accepted and the offered table, sub-tables included, as the
\* first handling left them.
C15_Idempotent ==
    \A n \in Node : \A k \in 1..NumPorts(n) : \A V \in UpdateVIDSets : \A o \in UpdateOptions :
        LET m == failure_update(V, o)
            once == AfterFailure(state(n), n, k, m)
            twice == AfterFailure(once, n, k, m)
        IN  twice.vap = once.vap /\ twice.vop = once.vop

\* a FAILURE_UPDATE has just been handled on a port with a table entry,
\* it left VIDs in a sub-table, and handling it again changes nothing
C15_Witness ==
    \E n \in Node : \E k \in 1..NumPorts(n) :
        /\ rcvd.node = n /\ rcvd.port = k
        /\ rcvd.frame.type = MTP_TYPE_FAILURE_UPDATE
        /\ (HasAccepted(n, k) \/ HasOffered(n, k))
        /\ PortSubTables(state(n), k) # [accepted_ut |-> {}, offered_rt |-> {}, offered_ut |-> {}]
        /\ AfterFailure(state(n), n, k, rcvd.frame) = state(n)

\* C16 as claimed: for any table state, a FAILURE_UPDATE followed by the
\* RECOVER_UPDATE with the same option and VIDs on the same port leaves the
\* sub-tables of the port as they were.
C16_Original ==
    \A n \in Node : \A k \in 1..NumPorts(n) : \A V \in UpdateVIDSets : \A o \in UpdateOptions :
        LET failed == AfterFailure(state(n), n, k, failure_update(V, o))
            recovered == AfterRecover(failed, n, k, recover_update(V, o))
        IN  PortSubTables(recovered, k) = PortSubTables(state(n), k)

\* the FAILURE_UPDATE with option o and VIDs V finds nothing to overwrite on
\* port k: on an accepted port none of the VIDs is listed unreachable yet;
\* on an offered port the reachable sub-table is empty and, for the
\* unreachable option, none of the VIDs is listed unreachable yet
NothingToOverwrite(st, k, V, o) ==
    LET t == PortSubTables(st, k)
    IN  /\ t.accepted_ut \cap V = {}
        /\ t.offered_rt = {}
        /\ o = UNREACHABLE_OPTION => t.offered_ut \cap V = {}

\* C16 as amended: if the FAILURE_UPDATE finds nothing to overwrite on the
\* port, then the FAILURE_UPDATE followed by the RECOVER_UPDATE with the same
\* option and VIDs on the same port leaves the sub-tables of the port as
\* they were.
C16_RoundTrip ==
    \A n \in Node : \A k \in 1..NumPorts(n) : \A V \in UpdateVIDSets : \A o \in UpdateOptions :
        NothingToOverwrite(state(n), k, V, o)
        => LET failed == AfterFailure(state(n), n, k, failure_update(V, o))
               recovered == AfterRecover(failed, n, k, recover_update(V, o))
           IN  PortSubTables(recovered, k) = PortSubTables(state(n), k)

\* a RECOVER_UPDATE has just been handled on a port with a table entry that
\* lists another VID unreachable; a FAILURE_UPDATE for the recovered VIDs
\* would find nothing to overwrite and would change the sub-tables
C16_Witness ==
    \E n \in Node : \E k \in 1..NumPorts(n) :
        /\ rcvd.node = n /\ rcvd.port = k
        /\ rcvd.frame.type = MTP_TYPE_RECOVER_UPDATE
        /\ rcvd.frame.vids # {}
        /\ (HasAccepted(n, k) \/ HasOffered(n, k))
        /\ NothingToOverwrite(state(n), k, rcvd.frame.vids, rcvd.frame.opt)
        /\ PortSubTables(state(n), k).accepted_ut \cup PortSubTables(state(n), k).offered_ut # {}
        /\ PortSubTables(AfterFailure(state(n), n, k, failure_update(rcvd.frame.vids, rcvd.frame.opt)), k)
               # PortSubTables(state(n), k)

(***************************************************************************)
(* Properties of the failure flood (SpecPort).                             *)
(***************************************************************************)
\* the periodic pass of node n marks port k down
PortFailsIn(n, k) == PassStep(n) /\ cp_head[n][k].isUP /\ ~cp_head'[n][k].isUP

\* the FAILURE_UPDATE transmissions of out, in order and as a set
FailureUpdateSeq(out) == SelectSeq(out, LAMBDA x : x.frame.type = MTP_TYPE_FAILURE_UPDATE)

FailureUpdatesSent(out) == Range(FailureUpdateSeq(out))

\* node n is cut off from the core: each of its offered ports is down in cp
Isolated(n, cp) == \A j \in OfferedPorts(n) : ~cp[j].isUP

\* C19: when the periodic pass of a node that is not a top spine marks a port
\* down and all offered ports of the node are then down, the FAILURE_UPDATEs
\* of the pass are: one with the reachable option and all VIDs of all
\* accepted entries on each accepted port that is up, and none on an offered
\* port.
C19_IsolatedFlood ==
    [][\A n \in Node : \A k \in 1..NumPorts(n) :
          (/\ PortFailsIn(n, k)
           /\ ~mtpConfig(n).isTopSpine
           /\ Isolated(n, cp_head'[n]))
          => (/\ FailureUpdatesSent(sent'.out)
                   = {[port |-> j,
                       frame |-> failure_update(get_all_accepted_VIDs(vap_head[n]), REACHABLE_OPTION)]
                         : j \in {a \in AcceptedPorts(n) : cp_head'[n][a].isUP}}
              /\ Len(FailureUpdateSeq(sent'.out)) = Cardinality(FailureUpdatesSent(sent'.out))
              /\ \A x \in FailureUpdatesSent(sent'.out) : x.port \notin OfferedPorts(n))]_vars

\* a pass has just marked the only offered port of a spine down and sent the
\* accepted VIDs, as reachable, down an accepted port that is up
C19_Witness ==
    \E n \in Node : \E k \in OfferedPorts(n) :
        /\ pc[n] = "recv" /\ sent.node = n
        /\ ~mtpConfig(n).isTopSpine
        /\ ~cp_head[n][k].isUP /\ cp_head[n][k].fail_type # 0
        /\ Isolated(n, cp_head[n])
        /\ \E x \in FailureUpdatesSent(sent.out) :
              /\ x.port \in AcceptedPorts(n) /\ cp_head[n][x.port].isUP
              /\ x.frame.opt = REACHABLE_OPTION
              /\ x.frame.vids = get_all_accepted_VIDs(vap_head[n])
              /\ x.frame.vids # {}

\* C20: when the periodic pass of a node marks an accepted port p down, by a
\* missing keep-alive or by immediate detection, and the node is a top spine
\* or still has an offered port that is up, the FAILURE_UPDATEs of the pass
\* are: one with the unreachable option and exactly the VIDs of the accepted
\* entry of p on each control port that is up, hence none on p.
C20_DownstreamFlood ==
    [][\A n \in Node : \A k \in 1..NumPorts(n) :
          (/\ PortFailsIn(n, k)
           /\ k \in AcceptedPorts(n)
           /\ (mtpConfig(n).isTopSpine \/ ~Isolated(n, cp_head'[n])))
          => (/\ cp_head'[n][k].fail_type \in {MISS_FAIL, DETECT_FAIL}
              /\ FailureUpdatesSent(sent'.out)
                   = {[port |-> j,
                       frame |-> failure_update(get_accepted_VIDs_by_port_name(vap_head[n], port_name(k)),
                                                UNREACHABLE_OPTION)]
                         : j \in {c \in 1..NumPorts(n) : cp_head'[n][c].isUP}}
              /\ Len(FailureUpdateSeq(sent'.out)) = Cardinality(FailureUpdatesSent(sent'.out))
              /\ \A x \in FailureUpdatesSent(sent'.out) : x.port # k)]_vars

\* a pass has just marked an accepted port down by immediate detection and
\* sent the VIDs of its entry, as unreachable, out another port while a
\* third port of the node or none is down
C20_Witness ==
    \E n \in Node : \E k \in AcceptedPorts(n) :
        /\ pc[n] = "recv" /\ sent.node = n
        /\ ~cp_head[n][k].isUP /\ cp_head[n][k].fail_type = DETECT_FAIL
        /\ \E x \in FailureUpdatesSent(sent.out) :
              /\ x.port # k /\ cp_head[n][x.port].isUP
              /\ x.frame.opt = UNREACHABLE_OPTION
              /\ x.frame.vids = get_accepted_VIDs_by_port_name(vap_head[n], port_name(k))
              /\ x.frame.vids # {}

(***************************************************************************)
(* SpecFail: the whole fabric as in SpecNet, with a clock, and with the    *)
(* link between T1 and L1 failing once and coming back once: the interface *)
(* of T1 vanishes from its kernel's list and frames on the link are lost.  *)
(* The daemons handle frames much faster than the timers run, so the clock *)
(* advances, and the link changes, only when no frame waits and no daemon  *)
(* has anything to do.  flap is 0 before the failure, 1 once the link has  *)
(* failed and 2 once it is back.                                           *)
(***************************************************************************)
\* an iteration of node n without a frame would change nothing
Idle(n) ==
    periodic_pass(state(n), mtpConfig(n), 1, current_time, working_ports[n]) = Result(state(n), << >>)

Quiescent == (\A i \in Iface : inbox[i] = << >>) /\ (\A n \in Node : Idle(n))

TickNet ==
    /\ self = "net"
    /\ Quiescent
    /\ current_time < StartTime + (MaxNetTicks * HELLO_TIMER)
    /\ current_time' = current_time + HELLO_TIMER
    /\ UNCHANGED << cp_head, vap_head, vop_head, pc, working_ports, inbox, rcvd, sent, self, flap, boot >>

LinkFail ==
    /\ self = "net"
    /\ flap = 0
    /\ Quiescent
    /\ working_ports' = [working_ports EXCEPT ![FailedIface[1]] = @ \ {FailedIface[2]}]
    /\ flap' = 1
    /\ UNCHANGED << cp_head, vap_head, vop_head, pc, current_time, inbox, rcvd, sent, self, boot >>

LinkRestore ==
    /\ self = "net"
    /\ flap = 1
    /\ Quiescent
    /\ working_ports' = [working_ports EXCEPT ![FailedIface[1]] = @ \cup {FailedIface[2]}]
    /\ flap' = 2
    /\ UNCHANGED << cp_head, vap_head, vop_head, pc, current_time, inbox, rcvd, sent, self, boot >>

NextFail == NextNet \/ TickNet \/ LinkFail \/ LinkRestore

SpecFail == InitNet /\ [][NextFail]_vars

(***************************************************************************)
(* Properties of a link failure in the fabric (SpecFail).                  *)
(***************************************************************************)
TopSpines == {n \in Node : mtpConfig(n).isTopSpine}

\* the port of node n on its link to node t
PortToward(n, t) == CHOOSE k \in 1..NumPorts(n) : Peer(<< n, k >>)[1] = t

\* the leaf below the failed link and its VID
FailedLeaf == Peer(FailedIface)[1]

FailedVID == RootOctet(FailedLeaf)

\* a DATA_MSG of a tenant for the leaf below the failed link
DataForFailedLeaf == data_msg(2, FailedVID, << 2, 5, FailedVID, 8 >>)

\* the ports on which spine n forwards the DATA_MSG m that came in on port k
ForwardPorts(n, k, m) ==
    {x.port : x \in DataSent(handle_receive_data_msg(state(n), mtpConfig(n), k, m, current_time).out)}

\* no reachable or unreachable sub-table of any switch lists a VID, as it is
\* before any failure
SubTablesEmpty ==
    \A n \in Node :
        /\ \A i \in 1..Len(vap_head[n]) : vap_head[n][i].ut = {}
        /\ \A i \in 1..Len(vop_head[n]) : vop_head[n][i].rt = {} /\ vop_head[n][i].ut = {}

\* the spine has marked its port on the failed link down and every frame
\* that followed has been handled
FailureSettled ==
    /\ flap = 1
    /\ ~cp_head[FailedIface[1]][FailedIface[2]].isUP
    /\ cp_head[FailedIface[1]][FailedIface[2]].fail_type # 0
    /\ Quiescent

\* the link is back, both its ports are up again and every frame that
\* followed has been handled
RecoverySettled ==
    /\ flap = 2
    /\ cp_head[FailedIface[1]][FailedIface[2]].isUP
    /\ cp_head[FailedLeaf][Peer(FailedIface)[2]].isUP
    /\ Quiescent

\* C17: once T1 has marked its port to L1 down and the FAILURE_UPDATEs are
\* handled, every top spine lists the VID of L1 as unreachable in its
\* accepted entry toward T1 and forwards a DATA_MSG for that VID (coming in
\* on another port) not to T1 but out another port.
C17_Original ==
    FailureSettled
    => \A n \in TopSpines :
          LET k == PortToward(n, FailedIface[1])
              a == find_accepted_port_by_name(vap_head[n], port_name(k))
          IN  /\ a # NULL
              /\ Lists(vap_head[n][a].ut, FailedVID)
              /\ \A j \in (1..NumPorts(n)) \ {k} :
                    /\ ForwardPorts(n, j, DataForFailedLeaf) # {}
                    /\ k \notin ForwardPorts(n, j, DataForFailedLeaf)

\* the failure is settled and the top spine lists the VID of L1 as
\* unreachable toward T1
C17_Witness ==
    /\ FailureSettled
    /\ \E n \in TopSpines : \E i \in 1..Len(vap_head[n]) :
          /\ vap_head[n][i].cp = PortToward(n, FailedIface[1])
          /\ Lists(vap_head[n][i].ut, FailedVID)

\* C18: once the link is back, its ports are up again and the updates are
\* handled, the sub-tables of every switch are as before the failure (empty)
\* and T1 forwards a DATA_MSG for the VID of L1 through the recovered port.
C18_Original ==
    RecoverySettled
    => /\ SubTablesEmpty
       /\ \A j \in (1..NumPorts(FailedIface[1])) \ {FailedIface[2]} :
             ForwardPorts(FailedIface[1], j, DataForFailedLeaf) = {FailedIface[2]}

\* the recovery is settled
C18_Witness == RecoverySettled /\ current_time > StartTime

\* before the link fails no sub-table lists a VID
NoFailureNoSubTables == flap = 0 => SubTablesEmpty

(***************************************************************************)
(* SpecLink: a daemon whose links complete the handshake and whose         *)
(* neighbours report failures and recoveries in any order, while one link  *)
(* is unreliable: its keep-alives come at any time or not at all and its   *)
(* interface may vanish and come back.                                     *)
(***************************************************************************)
LinkFrames(n, k) == PortFrames(n, k) \cup EnvUpdates(n, k)

ReceiveLink == ReceiveEnv([k \in 1..NumPorts(self) |-> LinkFrames(self, k)], {})

NextLink == ReceiveLink \/ PassEnv \/ InterfaceChange

SpecLink == InitNode(Bench) /\ [][NextLink]_vars

(***************************************************************************)
(* Properties of the floods with filled sub-tables (SpecLink).             *)
(***************************************************************************)
\* no offered port of node n lists a VID, reachable or unreachable
Clean(n) == \A i \in 1..Len(vop_head[n]) : vop_head[n][i].rt = {} /\ vop_head[n][i].ut = {}

\* the VIDs the offered ports of node n list as unreachable
Blocked(n) == UNION {vop_head[n][i].ut : i \in 1..Len(vop_head[n])}

\* the frame f once on each port of ks, as transmissions
OnEach(ks, f) == {[port |-> j, frame |-> f] : j \in ks}

\* the offered, resp. accepted, ports of node n that are up in cp
UpOffered(n, cp) == {j \in OfferedPorts(n) : cp[j].isUP}

UpAccepted(n, cp) == {j \in AcceptedPorts(n) : cp[j].isUP}

\* C21 as stated: when the periodic pass marks an offered port down and
\* another offered port is up, no FAILURE_UPDATE is sent if the offered
\* sub-tables are all empty, and otherwise one FAILURE_UPDATE with the
\* unreachable option and the VIDs listed unreachable goes out on each
\* offered port that is up, none on an accepted port.
C21_Original ==
    [][\A n \in Node : \A k \in 1..NumPorts(n) :
          (/\ PortFailsIn(n, k)
           /\ k \in OfferedPorts(n)
           /\ ~Isolated(n, cp_head'[n]))
          => IF Clean(n)
             THEN FailureUpdatesSent(sent'.out) = {}
             ELSE FailureUpdatesSent(sent'.out)
                    = OnEach(UpOffered(n, cp_head'[n]), failure_update(Blocked(n), UNREACHABLE_OPTION))]_vars

\* C21: when the periodic pass marks an offered port down and another
\* offered port is up, no FAILURE_UPDATE is sent if no offered port lists an
\* unreachable VID (be the reachable sub-tables empty or not), and otherwise
\* one FAILURE_UPDATE with the unreachable option and the VIDs listed
\* unreachable goes out on each offered port that is up, none on an accepted
\* port.
C21_UpstreamFlood ==
    [][\A n \in Node : \A k \in 1..NumPorts(n) :
          (/\ PortFailsIn(n, k)
           /\ k \in OfferedPorts(n)
           /\ ~Isolated(n, cp_head'[n]))
          => (/\ (Clean(n) => Blocked(n) = {})
              /\ IF Blocked(n) = {}
                 THEN FailureUpdatesSent(sent'.out) = {}
                 ELSE /\ FailureUpdatesSent(sent'.out)
                           = OnEach(UpOffered(n, cp_head'[n]),
                                     failure_update(Blocked(n), UNREACHABLE_OPTION))
                      /\ Len(FailureUpdateSeq(sent'.out)) = Cardinality(FailureUpdatesSent(sent'.out))
                      /\ \A x \in FailureUpdatesSent(sent'.out) : x.port \notin AcceptedPorts(n))]_vars

\* a pass has just marked an offered port down and sent the VIDs listed
\* unreachable out the other offered port, which is up
C21_Witness ==
    \E n \in Node : \E k \in OfferedPorts(n) :
        /\ pc[n] = "recv" /\ sent.node = n
        /\ ~cp_head[n][k].isUP /\ cp_head[n][k].fail_type = DETECT_FAIL
        /\ ~Isolated(n, cp_head[n])
        /\ Blocked(n) # {}
        /\ \E x \in FailureUpdatesSent(sent.out) :
              /\ x.port \in OfferedPorts(n) /\ x.port # k
              /\ x.frame = failure_update(Blocked(n), UNREACHABLE_OPTION)

(***************************************************************************)
(* Properties of the update handlers (SpecLink).                           *)
(***************************************************************************)
\* the receive half of node n takes a frame of type t in on port q
Receives(n, q, t) ==
    /\ ReceiveStep(n)
    /\ rcvd'.node = n /\ rcvd'.port = q
    /\ rcvd'.frame.type = t

\* the entry of port q in the table
EntryOf(table, q) == table[find_port_by_name(table, port_name(q))]

\* the ports of node n that are up in cp
UpControl(n, cp) == {j \in 1..NumPorts(n) : cp[j].isUP}

\* the step wrote exactly the transmissions of the set X, each once
SentExactly(X) == Range(sent'.out) = X /\ Len(sent'.out) = Cardinality(X)

\* C22: a FAILURE_UPDATE received on an accepted port q adds the carried
\* VIDs to the unreachable sub-table of q and to no other sub-table, and is
\* written again, with the unreachable option and the same VIDs, once on
\* every control port that is up except q, and never on q.
C22_AcceptedFailureUpdate ==
    [][\A n \in Node : \A q \in AcceptedPorts(n) :
          Receives(n, q, MTP_TYPE_FAILURE_UPDATE)
          => (/\ EntryOf(vap_head'[n], q).ut = EntryOf(vap_head[n], q).ut \cup rcvd'.frame.vids
              /\ \A j \in AcceptedPorts(n) \ {q} : EntryOf(vap_head'[n], j) = EntryOf(vap_head[n], j)
              /\ vop_head'[n] = vop_head[n]
              /\ SentExactly(OnEach(UpControl(n, cp_head[n]) \ {q},
                                    failure_update(rcvd'.frame.vids, UNREACHABLE_OPTION)))
              /\ \A x \in Range(sent'.out) : x.port # q)]_vars

\* a spine has just taken a FAILURE_UPDATE in on its accepted port, which is
\* up, and passed it on to its offered port
C22_Witness ==
    \E n \in Node : \E q \in AcceptedPorts(n) :
        /\ pc[n] = "pass" /\ rcvd.node = n /\ rcvd.port = q
        /\ rcvd.frame.type = MTP_TYPE_FAILURE_UPDATE
        /\ cp_head[n][q].isUP
        /\ rcvd.frame.vids # {} /\ rcvd.frame.vids \subseteq EntryOf(vap_head[n], q).ut
        /\ \E x \in Range(sent.out) :
              /\ x.port \in OfferedPorts(n)
              /\ x.frame = failure_update(rcvd.frame.vids, UNREACHABLE_OPTION)

\* what a FAILURE_UPDATE with option o and VIDs V makes of the offered entry e
OfferedAfterFailure(e, o, V) ==
    IF o = UNREACHABLE_OPTION
    THEN [e EXCEPT !.rt = {}, !.ut = @ \cup V]
    ELSE [e EXCEPT !.rt = V]

\* C23 as stated: a FAILURE_UPDATE received on an offered port q changes the
\* sub-tables of q only; a leaf then sends nothing; a node that is not a leaf
\* sends the VIDs its offered ports list unreachable, with the unreachable
\* option, once on every accepted port that is up if the offered sub-tables
\* are not all empty, and nothing if they are.
C23_Original ==
    [][\A n \in Node : \A q \in OfferedPorts(n) :
          Receives(n, q, MTP_TYPE_FAILURE_UPDATE)
          => (/\ EntryOf(vop_head'[n], q)
                   = OfferedAfterFailure(EntryOf(vop_head[n], q), rcvd'.frame.opt, rcvd'.frame.vids)
              /\ \A j \in OfferedPorts(n) \ {q} : EntryOf(vop_head'[n], j) = EntryOf(vop_head[n], j)
              /\ vap_head'[n] = vap_head[n]
              /\ IF mtpConfig(n).isLeaf \/ is_unreachable_and_reachable_empty(vop_head'[n])
                 THEN sent'.out = << >>
                 ELSE SentExactly(OnEach(UpAccepted(n, cp_head[n]),
                                         failure_update(get_unreachable_VIDs_from_offered_ports(vop_head'[n]),
                                                        UNREACHABLE_OPTION))))]_vars

\* C23: a FAILURE_UPDATE received on an offered port q changes the
\* sub-tables of q only; a leaf then sends nothing; a node that is not a leaf
\* sends the VIDs its offered ports list unreachable, with the unreachable
\* option, once on every accepted port that is up if there is such a VID,
\* and nothing if there is none, be the reachable sub-tables empty or not.
C23_OfferedFailureUpdate ==
    [][\A n \in Node : \A q \in OfferedPorts(n) :
          Receives(n, q, MTP_TYPE_FAILURE_UPDATE)
          => (/\ EntryOf(vop_head'[n], q)
                   = OfferedAfterFailure(EntryOf(vop_head[n], q), rcvd'.frame.opt, rcvd'.frame.vids)
              /\ \A j \in OfferedPorts(n) \ {q} : EntryOf(vop_head'[n], j) = EntryOf(vop_head[n], j)
              /\ vap_head'[n] = vap_head[n]
              /\ IF mtpConfig(n).isLeaf \/ get_unreachable_VIDs_from_offered_ports(vop_head'[n]) = {}
                 THEN sent'.out = << >>
                 ELSE SentExactly(OnEach(UpAccepted(n, cp_head[n]),
                                         failure_update(get_unreachable_VIDs_from_offered_ports(vop_head'[n]),
                                                        UNREACHABLE_OPTION))))]_vars

\* a spine has just taken a FAILURE_UPDATE with the unreachable option in on
\* its offered port and sent the VIDs now listed unreachable down its
\* accepted port, which is up
C23_Witness ==
    \E n \in Node : \E q \in OfferedPorts(n) :
        /\ pc[n] = "pass" /\ rcvd.node = n /\ rcvd.port = q
        /\ rcvd.frame.type = MTP_TYPE_FAILURE_UPDATE
        /\ rcvd.frame.opt = UNREACHABLE_OPTION
        /\ ~mtpConfig(n).isLeaf
        /\ rcvd.frame.vids # {} /\ rcvd.frame.vids \subseteq EntryOf(vop_head[n], q).ut
        /\ \E x \in Range(sent.out) :
              /\ x.port \in AcceptedPorts(n) /\ cp_head[n][x.port].isUP
              /\ x.frame = failure_update(Blocked(n), UNREACHABLE_OPTION)

\* C24: when a node that is not a leaf takes a RECOVER_UPDATE in on an
\* offered port, with either option, and the offered sub-tables were not all
\* empty before and are not all empty after, it writes a RECOVER_UPDATE with
\* the received VIDs once on every accepted port that is up; when the
\* sub-tables were all empty before, it writes nothing.
C24_Original ==
    [][\A n \in Node : \A q \in OfferedPorts(n) :
          (Receives(n, q, MTP_TYPE_RECOVER_UPDATE) /\ ~mtpConfig(n).isLeaf)
          => (/\ (~Clean(n) /\ ~is_unreachable_and_reachable_empty(vop_head'[n]))
                    => \E o \in {REACHABLE_OPTION, UNREACHABLE_OPTION} :
                          SentExactly(OnEach(UpAccepted(n, cp_head[n]),
                                             recover_update(rcvd'.frame.vids, o)))
              /\ Clean(n) => sent'.out = << >>)]_vars

\* a spine has just taken a RECOVER_UPDATE with the reachable option in on
\* its offered port, which listed an unreachable VID before and lists it
\* still, and its accepted port is up
C24_Witness ==
    \E n \in Node : \E q \in OfferedPorts(n) :
        /\ pc[n] = "pass" /\ rcvd.node = n /\ rcvd.port = q
        /\ rcvd.frame.type = MTP_TYPE_RECOVER_UPDATE
        /\ rcvd.frame.opt = REACHABLE_OPTION
        /\ ~mtpConfig(n).isLeaf
        /\ Blocked(n) # {}
        /\ UpAccepted(n, cp_head[n]) # {}
        /\ sent.out = << >>

(***************************************************************************)
(* SpecUnreliable: a daemon whose links complete the handshake and are all *)
(* unreliable: keep-alives come at any time or not at all on every port    *)
(* and every interface may vanish and come back.                           *)
(***************************************************************************)
UnreliableFrames(n, k) == EnvJoin(n, k) \cup {keep_alive}

ReceiveUnreliable == ReceiveEnv([k \in 1..NumPorts(self) |-> UnreliableFrames(self, k)], {})

\* an interface disappears from, or comes back to, the kernel's list
AnyInterfaceChange ==
    /\ self \in Node
    /\ pc[self] = "recv"
    /\ \E k \in 1..NumPorts(self) :
          working_ports' = [working_ports EXCEPT ![self] = IF k \in @ THEN @ \ {k} ELSE @ \cup {k}]
    /\ UNCHANGED << cp_head, vap_head, vop_head, pc, current_time, inbox, rcvd, sent, self, flap, boot >>

NextUnreliable == ReceiveUnreliable \/ PassEnv \/ AnyInterfaceChange

InitUnreliable == InitNode(Bench) /\ flap = 1

SpecUnreliable == InitUnreliable /\ [][NextUnreliable]_vars

(***************************************************************************)
(* Properties of the recovery of a port (SpecUnreliable, SpecLink).        *)
(***************************************************************************)
\* the receive half of node n takes a keep-alive in on port k and marks the
\* port up again
PortRecoversIn(n, k) == KeepAliveStep(n, k) /\ ~cp_head[n][k].isUP /\ cp_head'[n][k].isUP

\* C25 as stated: when an accepted port p is marked up again, the node
\* writes a RECOVER_UPDATE with the unreachable option and the VIDs of the
\* accepted entry of p once on every other control port that is up, and
\* nothing else, whether an offered port is up or not.  (Stated for a port
\* that had completed the handshake, on a node that has offered ports.)
C25_Original ==
    [][\A n \in Node : \A p \in AcceptedPorts(n) :
          (PortRecoversIn(n, p) /\ cp_head[n][p].start /\ OfferedPorts(n) # {})
          => (/\ SentExactly(OnEach(UpControl(n, cp_head[n]) \ {p},
                                    recover_update(EntryOf(vap_head[n], p).vids, UNREACHABLE_OPTION)))
              /\ \A x \in Range(sent'.out) : x.port # p)]_vars

\* C25: an accepted port p is marked up again by the third counted
\* keep-alive.  If the node is a top spine or one of its offered ports is
\* up, it writes a RECOVER_UPDATE with the unreachable option and the VIDs of
\* the accepted entry of p once on every other control port that is up and
\* nothing on p.  If the node is not a top spine and none of its offered
\* ports is up, it writes no RECOVER_UPDATE but a FAILURE_UPDATE with the
\* reachable option and the VIDs of all accepted entries once on every
\* accepted port that is up, p included.
C25_DownstreamRecovery ==
    [][\A n \in Node : \A p \in AcceptedPorts(n) :
          PortRecoversIn(n, p)
          => (/\ cp_head'[n][p].continue_count = 3
              /\ IF mtpConfig(n).isTopSpine \/ ~Isolated(n, cp_head[n])
                 THEN /\ SentExactly(OnEach(UpControl(n, cp_head[n]) \ {p},
                                            recover_update(EntryOf(vap_head[n], p).vids,
                                                           UNREACHABLE_OPTION)))
                      /\ \A x \in Range(sent'.out) : x.port # p
                 ELSE SentExactly(OnEach(UpAccepted(n, cp_head'[n]),
                                         failure_update(get_all_accepted_VIDs(vap_head[n]),
                                                        REACHABLE_OPTION))))]_vars

\* the accepted port of a spine has just come up again while the offered
\* port is up, and the VIDs of its entry went out the offered port in a
\* RECOVER_UPDATE
C25_Witness ==
    \E n \in Node : \E p \in AcceptedPorts(n) :
        /\ pc[n] = "pass" /\ rcvd.node = n /\ rcvd.port = p
        /\ rcvd.frame.type = MTP_TYPE_KEEP_ALIVE
        /\ cp_head[n][p].isUP /\ cp_head[n][p].continue_count = 3
        /\ \E x \in Range(sent.out) :
              /\ x.port \in OfferedPorts(n) /\ cp_head[n][x.port].isUP
              /\ x.frame = recover_update(EntryOf(vap_head[n], p).vids, UNREACHABLE_OPTION)
              /\ x.frame.vids # {}

\* C26: when an offered port p that had completed the handshake is marked up
\* again: if all offered ports were down and the node is not a leaf, a
\* RECOVER_UPDATE with the reachable option goes out once on every accepted
\* port that is up; otherwise, if another offered port is up and lists
\* unreachable VIDs, the VIDs that the offered ports still list unreachable
\* are sent in some frame.
C26_Original ==
    [][\A n \in Node : \A p \in OfferedPorts(n) :
          (PortRecoversIn(n, p) /\ cp_head[n][p].start)
          => IF Isolated(n, cp_head[n]) /\ ~mtpConfig(n).isLeaf
             THEN SentExactly(OnEach(UpAccepted(n, cp_head[n]), recover_update({}, REACHABLE_OPTION)))
             ELSE (\E j \in UpOffered(n, cp_head[n]) \ {p} : EntryOf(vop_head[n], j).ut # {})
                     => \E x \in Range(sent'.out) : x.frame.vids = Blocked(n)]_vars

\* an offered port of a node has just come up again while another offered
\* port is up and lists an unreachable VID, and nothing was sent
C26_Witness ==
    \E n \in Node : \E p \in OfferedPorts(n) :
        /\ pc[n] = "pass" /\ rcvd.node = n /\ rcvd.port = p
        /\ rcvd.frame.type = MTP_TYPE_KEEP_ALIVE
        /\ cp_head[n][p].start /\ cp_head[n][p].isUP /\ cp_head[n][p].continue_count = 3
        /\ \E j \in OfferedPorts(n) \ {p} : cp_head[n][j].isUP /\ EntryOf(vop_head[n], j).ut # {}
        /\ sent.out = << >>

(***************************************************************************)
(* SpecHello: a daemon that receives, in any order, the handshake frames   *)
(* of its neighbours and Hello-NR messages that claim any tier.            *)
(***************************************************************************)
Tiers == {mtpConfig(n).tier : n \in Node}

HelloFrames(n, k) == EnvHandshake(n, k) \cup {hello_NR(t, V) : t \in Tiers, V \in EnvVIDSets}

ReceiveHello == ReceiveEnv([k \in 1..NumPorts(self) |-> HelloFrames(self, k)], {})

NextHello == ReceiveHello \/ PassEnv

SpecHello == InitNode(Bench) /\ [][NextHello]_vars

\* C27: a Hello-NR whose tier is greater than or equal to the tier of the
\* receiver is dropped: nothing is sent and neither the tables nor the
\* control ports change.  A Hello-NR of a strictly lower tier is answered by
\* exactly one frame, a Join-Req on the ingress port with the same VIDs.
C27_HelloNR ==
    [][\A n \in Node : \A k \in 1..NumPorts(n) :
          Receives(n, k, MTP_TYPE_HELLONR_MSG)
          => IF rcvd'.frame.tier >= mtpConfig(n).tier
             THEN /\ sent'.out = << >>
                  /\ cp_head'[n] = cp_head[n]
                  /\ vap_head'[n] = vap_head[n]
                  /\ vop_head'[n] = vop_head[n]
             ELSE /\ Len(sent'.out) = 1
                  /\ sent'.out[1].port = k
                  /\ sent'.out[1].frame.type = MTP_TYPE_JOIN_REQ
                  /\ sent'.out[1].frame.vids = rcvd'.frame.vids]_vars

\* a daemon has just answered the Hello-NR of a lower tier with a Join-Req
\* on the ingress port
C27_Witness ==
    \E n \in Node :
        /\ pc[n] = "pass" /\ rcvd.node = n
        /\ rcvd.frame.type = MTP_TYPE_HELLONR_MSG
        /\ rcvd.frame.tier < mtpConfig(n).tier
        /\ rcvd.frame.vids # {}
        /\ Len(sent.out) = 1
        /\ sent.out[1].port = rcvd.port
        /\ sent.out[1].frame.type = MTP_TYPE_JOIN_REQ
        /\ sent.out[1].frame.vids = rcvd.frame.vids

(***************************************************************************)
(* SpecStart: main from its first statement.  The command line, the file   *)
(* system and the kernel decide how each start-up call ends; a daemon that *)
(* reaches the event loop then receives the handshake frames of its        *)
(* neighbours in any order.                                                *)
(***************************************************************************)
EXIT_FAILURE == 1

\* mtpConfig before readConfigurationFile has run
ZeroConfig == [tier |-> 0, isTopSpine |-> FALSE, isLeaf |-> FALSE]

\* main at its first statement
Fresh == [at |-> "arguments", status |-> 0, failed |-> "none", config |-> ZeroConfig]

\* the values of argc tried
ArgCounts == 1..4

InitStart ==
    /\ InitTables
    /\ self \in Bench
    /\ flap = 1
    /\ inbox = [i \in Iface |-> << >>]
    /\ sent = [node |-> self, out |-> << >>]
    /\ boot = [n \in Node |-> IF n = self THEN Fresh ELSE Booted(mtpConfig(n))]

\* main ends with the given status because the call named by what failed
Exit(b, what, status) == [b EXCEPT !.at = "exited", !.failed = what, !.status = status]

\* main of the daemon goes on as b
StartupStep(b) ==
    /\ boot' = [boot EXCEPT ![self] = b]
    /\ UNCHANGED << cp_head, vap_head, vop_head, pc, current_time, working_ports, inbox, rcvd, sent,
                    self, flap >>

CheckArguments ==
    /\ boot[self].at = "arguments"
    /\ \E argc \in ArgCounts :
          StartupStep(IF argc # 3
                      THEN Exit(boot[self], "arguments", EXIT_FAILURE)
                      ELSE [boot[self] EXCEPT !.at = "signals"])

InstallSignalHandlers ==
    /\ boot[self].at = "signals"
    /\ \E installed \in BOOLEAN :
          StartupStep(IF ~installed
                      THEN Exit(boot[self], "signal", EXIT_FAILURE)
                      ELSE [boot[self] EXCEPT !.at = "directory"])

CheckDirectory ==
    /\ boot[self].at = "directory"
    /\ \E isValidDirectory \in BOOLEAN :
          StartupStep(IF ~isValidDirectory
                      THEN Exit(boot[self], "directory", 1)
                      ELSE [boot[self] EXCEPT !.at = "configuration"])

\* readConfigurationFile: fopen gives the file the emulator wrote for the
\* node, or fails
ReadConfiguration ==
    /\ boot[self].at = "configuration"
    /\ \E opened \in BOOLEAN :
          StartupStep(IF ~opened
                      THEN [boot[self] EXCEPT !.at = "interfaces", !.failed = "configuration"]
                      ELSE [boot[self] EXCEPT !.at = "interfaces", !.config = mtpConfig(self)])

EnumerateInterfaces ==
    /\ boot[self].at = "interfaces"
    /\ \E listed \in BOOLEAN :
          StartupStep(IF ~listed
                      THEN Exit(boot[self], "interfaces", EXIT_FAILURE)
                      ELSE [boot[self] EXCEPT !.at = "sockets"])

CreateSockets ==
    /\ boot[self].at = "sockets"
    /\ \E created \in BOOLEAN :
          StartupStep(IF ~created
                      THEN Exit(boot[self], "sockets", 1)
                      ELSE [boot[self] EXCEPT !.at = "hello"])

\* a leaf announces itself, and the event loop begins
EnterLoop ==
    /\ boot[self].at = "hello"
    /\ boot' = [boot EXCEPT ![self].at = "loop"]
    /\ sent' = [node |-> self,
                out |-> IF boot[self].config.isLeaf
                        THEN SendEach([k \in 1..NumPorts(self) |-> k],
                                      hello_NR(boot[self].config.tier, {getRootVID(self)}))
                        ELSE << >>]
    /\ UNCHANGED << cp_head, vap_head, vop_head, pc, current_time, working_ports, inbox, rcvd, self, flap >>

ReceiveStart == ReceiveEnv([k \in 1..NumPorts(self) |-> EnvHandshake(self, k)], {})

NextStart ==
    \/ CheckArguments \/ InstallSignalHandlers \/ CheckDirectory \/ ReadConfiguration
    \/ EnumerateInterfaces \/ CreateSockets \/ EnterLoop
    \/ ReceiveStart \/ PassEnv

SpecStart == InitStart /\ [][NextStart]_vars

\* C28: a start-up call that fails (wrong number of arguments, invalid
\* configuration directory, configuration file that cannot be opened, socket
\* that cannot be created) ends main with status 1, and main reaches the
\* event loop only with the configuration read from the file.
C28_Original ==
    \A n \in Node :
        /\ boot[n].failed # "none" => (boot[n].at = "exited" /\ boot[n].status = 1)
        /\ boot[n].at = "loop" => boot[n].config = mtpConfig(n)

\* a daemon whose configuration file could not be opened has handled a frame
\* in its event loop with the configuration still all zero
C28_Witness ==
    \E n \in Node :
        /\ boot[n].at = "loop" /\ boot[n].failed = "configuration"
        /\ boot[n].config = ZeroConfig
        /\ pc[n] = "pass" /\ rcvd.node = n /\ rcvd.frame # NoFrame

\* every other failed start-up call ends main with status 1
OtherFailuresExit ==
    \A n \in Node :
        boot[n].failed \notin {"none", "configuration"} => (boot[n].at = "exited" /\ boot[n].status = 1)

(***************************************************************************)
(* What failures, recoveries and updates leave alone (SpecLink).           *)
(***************************************************************************)
\* the entries of a table without their sub-tables: port and VIDs
Skeleton(table) ==
    [i \in 1..Len(table) |-> [port_name |-> table[i].port_name, cp |-> table[i].cp, vids |-> table[i].vids]]

\* every entry of the table is still there in later, at its place and with
\* at least the VIDs it had
Kept(table, later) ==
    /\ Len(later) >= Len(table)
    /\ \A i \in 1..Len(table) :
          /\ later[i].port_name = table[i].port_name
          /\ later[i].cp = table[i].cp
          /\ table[i].vids \subseteq later[i].vids

\* the step of node n is a periodic pass, or a receive half that takes in a
\* KEEP_ALIVE, a FAILURE_UPDATE or a RECOVER_UPDATE
FailureOrRecoveryStep(n) ==
    \/ PassStep(n)
    \/ /\ ReceiveStep(n)
       /\ rcvd'.node = n
       /\ rcvd'.frame.type \in {MTP_TYPE_KEEP_ALIVE, MTP_TYPE_FAILURE_UPDATE, MTP_TYPE_RECOVER_UPDATE}

\* C29: no step removes an accepted or offered entry or takes a VID out of
\* the VID set of an entry; and a periodic pass (port failure), a keep-alive
\* (port recovery), a FAILURE_UPDATE and a RECOVER_UPDATE leave the entries,
\* their VID sets and the start flag of every control port as they are: they
\* change only isUP, fail_type, continue_count, the timestamps and the
\* reachable and unreachable sub-tables.
C29_EntriesKept ==
    [][\A n \in Node :
          /\ Kept(vap_head[n], vap_head'[n])
          /\ Kept(vop_head[n], vop_head'[n])
          /\ FailureOrRecoveryStep(n)
                => (/\ Skeleton(vap_head'[n]) = Skeleton(vap_head[n])
                    /\ Skeleton(vop_head'[n]) = Skeleton(vop_head[n])
                    /\ \A k \in 1..NumPorts(n) : cp_head'[n][k].start = cp_head[n][k].start)]_vars

\* a port with an entry that holds a VID has failed and come back (its
\* keep-alive count is 3), one of the entries lists an unreachable VID, and
\* another update has just been handled
C29_Witness ==
    \E n \in Node : \E k \in AcceptedPorts(n) \cup OfferedPorts(n) :
        /\ pc[n] = "pass" /\ rcvd.node = n
        /\ rcvd.frame.type \in {MTP_TYPE_FAILURE_UPDATE, MTP_TYPE_RECOVER_UPDATE}
        /\ cp_head[n][k].isUP /\ cp_head[n][k].continue_count = 3
        /\ get_all_accepted_VIDs(vap_head[n]) \cup UNION {vop_head[n][i].vids : i \in 1..Len(vop_head[n])} # {}
        /\ \/ Blocked(n) # {}
           \/ \E i \in 1..Len(vap_head[n]) : vap_head[n][i].ut # {}

(***************************************************************************)
(* SpecForeign: the daemon of SpecPort on a host where frames also arrive  *)
(* on interfaces whose name does not begin with the node name (the raw     *)
(* sockets are bound to no interface).                                     *)
(***************************************************************************)
\* the port recorded for a frame that came in on a foreign interface
FOREIGN == 0 - 1

\* an iteration that takes a frame in on a foreign interface and ends there:
\* either the MTP socket gives the foreign frame and nothing is handled, or,
\* on a leaf, the MTP frame m of port k (or none) is handled and the IPv4
\* socket then gives a packet of a foreign interface
ReceiveForeign ==
    /\ self \in Node
    /\ boot[self].at = "loop"
    /\ pc[self] = "recv"
    /\ \/ /\ rcvd' = [node |-> self, port |-> FOREIGN, frame |-> keep_alive, ip |-> NoFrame]
          /\ sent' = [node |-> self, out |-> << >>]
          /\ UNCHANGED << cp_head, vap_head, vop_head >>
       \/ /\ boot[self].config.isLeaf
          /\ \E k \in 1..NumPorts(self) :
             \E m \in PortFrames(self, k) \cup {NoFrame} :
             \E ipIn \in EnvPackets :
             \E r \in {receive_step(state(self), boot[self].config, k, m, NoFrame, current_time)} :
                /\ (m = NoFrame => k = 1)
                /\ cp_head' = [cp_head EXCEPT ![self] = r.st.cp]
                /\ vap_head' = [vap_head EXCEPT ![self] = r.st.vap]
                /\ vop_head' = [vop_head EXCEPT ![self] = r.st.vop]
                /\ rcvd' = [node |-> self, port |-> FOREIGN, frame |-> m, ip |-> ipIn]
                /\ sent' = [node |-> self, out |-> r.out]
    /\ UNCHANGED << pc, current_time, working_ports, inbox, self, flap, boot >>

NextForeign == ReceivePort \/ ReceiveForeign \/ PassEnv \/ Tick

SpecForeign == InitNode(Bench) /\ [][NextForeign]_vars

\* a keep-alive is due on port k of node n: the periodic pass would send it
KeepAliveDue(n, k) ==
    /\ cp_head[n][k].start /\ cp_head[n][k].fail_type = 0
    /\ k \in working_ports[n]
    /\ current_time - cp_head[n][k].last_sent_time >= HELLO_TIMER

\* C30: every iteration of the event loop goes on to the periodic pass after
\* its receive step, whatever it received and on whatever interface.
C30_Original ==
    [][\A n \in Node :
          (pc[n] = "recv" /\ rcvd'.node = n /\ rcvd' # rcvd) => pc'[n] = "pass"]_vars

\* an iteration has just taken a frame in on a foreign interface and ended
\* at the top of the loop, while a keep-alive is due on a control port
C30_Witness ==
    \E n \in Node : \E k \in 1..NumPorts(n) :
        /\ rcvd.node = n /\ rcvd.port = FOREIGN
        /\ pc[n] = "recv"
        /\ KeepAliveDue(n, k)

(***************************************************************************)
(* A leaf and its compute interface.  The interface carries the name of    *)
(* the node, so the loop hands its MTP frames to the handlers, but         *)
(* setControlInterfaces has made no control-port record for it.  A handler *)
(* that stores through the NULL that find_control_port_by_name returns     *)
(* has undefined behaviour: the daemon is killed by the fault, or the      *)
(* store is lost and the handler goes on.                                  *)
(***************************************************************************)
Outcome(r, crashed) == [st |-> r.st, out |-> r.out, crashed |-> crashed]

\* the outcomes of a handler that stores through a NULL control port and
\* would otherwise end as r
NullStore(st, r) == {Outcome(Result(st, << >>), TRUE), Outcome(r, FALSE)}

\* the switch of the loop for a frame of the compute interface of a leaf
dispatch_unregistered(st, cfg, k, m, now) ==
    CASE m.type = MTP_TYPE_HELLONR_MSG -> {Outcome(handle_receive_hello_NR(st, cfg, k, m), FALSE)}
      [] m.type = MTP_TYPE_JOIN_REQ -> {Outcome(handle_receive_join_req(st, cfg, k, m), FALSE)}
      [] m.type = MTP_TYPE_JOIN_RES -> {Outcome(handle_receive_join_res(st, cfg, k, m), FALSE)}
      [] m.type = MTP_TYPE_JOIN_ACK ->
            LET st1 == [st EXCEPT !.vop = add_all_to_offered_table(st.vop, port_name(k), m.vids)]
            IN  NullStore(st1, Result(st1, send_start_hello(k)))
      [] m.type = MTP_TYPE_START_HELLO -> NullStore(st, Result(st, << >>))
      [] m.type = MTP_TYPE_DATA_MSG -> NullStore(st, Result(st, route_data_to_server(m)))
      [] m.type = MTP_TYPE_KEEP_ALIVE -> {Outcome(Result(st, << >>), FALSE)}
      [] m.type = MTP_TYPE_FAILURE_UPDATE -> {Outcome(handle_receive_failure_update(st, cfg, k, m), FALSE)}
      [] m.type = MTP_TYPE_RECOVER_UPDATE -> {Outcome(handle_receive_recover_update(st, cfg, k, m), FALSE)}
      [] OTHER -> {Outcome(Result(st, << >>), FALSE)}

\* the MTP frames that can arrive on the compute interface: one of each type
ComputeFrames(n) ==
    UNION {EnvHandshake(n, k) : k \in 1..NumPorts(n)}
    \cup {Frame(MTP_TYPE_JOIN_RES, 0, 0, V, 0, 0, << >>) : V \in EnvVIDSets}
    \cup {Frame(MTP_TYPE_START_HELLO, 0, 0, {}, 0, 0, << >>), keep_alive}
    \cup {failure_update(V, UNREACHABLE_OPTION) : V \in EnvVIDSets}
    \cup {recover_update(V, UNREACHABLE_OPTION) : V \in EnvVIDSets}
    \cup EnvData

\* the receive half of an iteration in which the MTP frame comes from the
\* compute interface
ReceiveCompute ==
    /\ self \in Node
    /\ boot[self].at = "loop"
    /\ boot[self].config.isLeaf
    /\ pc[self] = "recv"
    /\ \E m \in ComputeFrames(self) :
       \E r \in dispatch_unregistered(state(self), boot[self].config, COMPUTE_PORT, m, current_time) :
              /\ cp_head' = [cp_head EXCEPT ![self] = r.st.cp]
              /\ vap_head' = [vap_head EXCEPT ![self] = r.st.vap]
              /\ vop_head' = [vop_head EXCEPT ![self] = r.st.vop]
              /\ rcvd' = [node |-> self, port |-> COMPUTE_PORT, frame |-> m, ip |-> NoFrame]
              /\ sent' = [node |-> self, out |-> r.out]
              /\ boot' = IF r.crashed THEN [boot EXCEPT ![self].at = "crashed"] ELSE boot
    /\ pc' = [pc EXCEPT ![self] = "pass"]
    /\ UNCHANGED << current_time, working_ports, inbox, self, flap >>

NextCompute == ReceiveStart \/ ReceiveCompute \/ PassEnv

SpecCompute == InitNode({"L1"}) /\ [][NextCompute]_vars

\* C31: an MTP frame that arrives on an interface with the name of the node
\* but without a control-port record is dropped: the iteration changes no
\* control port and no table, and the daemon is not crashed.
C31_Original ==
    [][(rcvd'.port = COMPUTE_PORT /\ rcvd'.frame # NoFrame /\ rcvd'.node = self)
         => /\ cp_head' = cp_head /\ vap_head' = vap_head /\ vop_head' = vop_head
            /\ boot'[self].at = "loop"]_vars

\* the leaf has taken a Start-Hello from its compute interface
C31_Witness ==
    /\ rcvd.port = COMPUTE_PORT /\ rcvd.node = self
    /\ rcvd.frame.type = MTP_TYPE_START_HELLO

\* a keep-alive of the compute interface is dropped: its handler tests the
\* lookup before it uses the control port
KeepAliveDropped ==
    [][(rcvd'.port = COMPUTE_PORT /\ rcvd'.frame.type = MTP_TYPE_KEEP_ALIVE)
         => /\ cp_head' = cp_head /\ vap_head' = vap_head /\ vop_head' = vop_head
            /\ boot' = boot /\ sent'.out = << >>]_vars

(***************************************************************************)
(* Failed ports and the handshake.                                         *)
(***************************************************************************)
Failed(c) == c.fail_type \in {MISS_FAIL, DETECT_FAIL}

\* C32: a control port whose fail_type is MISS_FAIL or DETECT_FAIL is not
\* up; a Start-Hello or a Join-Ack taken on a failed port leaves it down
\* while fail_type is set.
C32_Original ==
    \A n \in Node : \A k \in DOMAIN cp_head[n] :
        Failed(cp_head[n][k]) => ~cp_head[n][k].isUP


\* a Start-Hello has been taken on a port that was marked failed, and the
\* port is up with fail_type still set
C32_Witness ==
    /\ rcvd.node = self /\ rcvd.port \in DOMAIN cp_head[self]
    /\ rcvd.frame.type = MTP_TYPE_START_HELLO
    /\ Failed(cp_head[self][rcvd.port]) /\ cp_head[self][rcvd.port].isUP

\* only a Start-Hello makes a failed port up: every other step, a Join-Ack
\* among them, leaves a failed port down or clears fail_type
OnlyStartHelloRaisesFailed ==
    [][\A k \in DOMAIN cp_head[self] :
          (Failed(cp_head'[self][k]) /\ cp_head'[self][k].isUP
             /\ ~(Failed(cp_head[self][k]) /\ cp_head[self][k].isUP))
          => (rcvd'.port = k /\ rcvd'.frame.type = MTP_TYPE_START_HELLO)]_vars

\* a Join-Ack is taken on a failed port
JoinAckOnFailed ==
    /\ rcvd.node = self /\ rcvd.port \in DOMAIN cp_head[self]
    /\ rcvd.frame.type = MTP_TYPE_JOIN_ACK
    /\ Failed(cp_head[self][rcvd.port])

(***************************************************************************)
(* The end of a flood.                                                     *)
(***************************************************************************)
UpdateTypes == {MTP_TYPE_FAILURE_UPDATE, MTP_TYPE_RECOVER_UPDATE}

\* the update messages among those of the queue q
Updates(q) == SelectSeq(q, LAMBDA m : m.type \in UpdateTypes)

\* the update messages that wait on the link to interface i
UpdatesInFlight(i) == Updates(inbox[i])

\* the number of transmissions that an update waiting at interface i can
\* still cause: its own, and those of the copies that the handlers write for
\* it, on the lower ports when it comes from above and on all other ports
\* when it comes from below
RECURSIVE Copies(_), CopiesOn(_, _)
Copies(i) ==
    1 + CopiesOn(i[1], {j \in 1..NumPorts(i[1]) :
                          j # i[2] /\ (IsUpper(i[1], i[2]) => ~IsUpper(i[1], j))})

CopiesOn(n, ks) ==
    IF ks = {} THEN 0
    ELSE LET j == CHOOSE x \in ks : TRUE
         IN  Copies(Peer(<< n, j >>)) + CopiesOn(n, ks \ {j})

\* the same for all the updates that wait in the queues of box
RECURSIVE FloodMeasure(_, _)
FloodMeasure(box, is) ==
    IF is = {} THEN 0
    ELSE LET i == CHOOSE x \in is : TRUE
         IN  (Len(Updates(box[i])) * Copies(i)) + FloodMeasure(box, is \ {i})

\* no port goes down or comes up in the step
NoPortEvent ==
    \A n \in Node : \A k \in DOMAIN cp_head[n] : cp_head'[n][k].isUP = cp_head[n][k].isUP

\* C33: once a port has failed or recovered and nothing else happens, the
\* flood ends: a step in which no port changes its state and which takes an
\* update in or writes one lowers the number of transmissions that the
\* updates in flight can still cause, because an update that came in on an
\* offered port is written on accepted ports only and a leaf writes none.
C33_FloodTerminates ==
    [][(NoPortEvent /\ \E i \in Iface : Updates(inbox'[i]) # Updates(inbox[i]))
         => FloodMeasure(inbox', Iface) < FloodMeasure(inbox, Iface)]_vars

\* an update is on its way down, from the top spine to a spine that did not
\* see the failure
C33_Witness ==
    \E i \in Iface :
        /\ IsUpper(i[1], i[2]) /\ mtpConfig(Peer(i)[1]).isTopSpine
        /\ i[1] # FailedIface[1]
        /\ UpdatesInFlight(i) # << >>

\* every daemon keeps running its loop
SpecFailFair == SpecFail /\ WF_vars(NextFail)

\* from some moment on no update is in flight
NoUpdateInTheEnd == <>[](\A i \in Iface : UpdatesInFlight(i) = << >>)

\* an update received on an offered port is written again on accepted ports
\* only, and a leaf writes none
DownwardOnly ==
    [][\A n \in Node : \A q \in OfferedPorts(n) \ AcceptedPorts(n) : \A t \in UpdateTypes :
          Receives(n, q, t)
          => (/\ \A x \in Range(sent'.out) :
                    x.frame.type \in UpdateTypes => x.port \in AcceptedPorts(n)
              /\ boot[n].config.isLeaf => sent'.out = << >>)]_vars

(***************************************************************************)
(* A link that loses its frames.  The interfaces of the link of T1 and L1  *)
(* stay in the lists of their kernels, but once the fabric has converged   *)
(* and the first keep-alives are exchanged (flap = 3) what is written to   *)
(* the link is lost in both directions; when both ends have marked their   *)
(* port down (flap = 4) the link delivers frames again.                    *)
(***************************************************************************)
\* ticks of the clock in the fabric with the link that loses frames
MaxSilentTicks == 7

TickSilent ==
    /\ self = "net"
    /\ Quiescent
    /\ current_time < StartTime + (MaxSilentTicks * HELLO_TIMER)
    /\ current_time' = current_time + HELLO_TIMER
    /\ UNCHANGED << cp_head, vap_head, vop_head, pc, working_ports, inbox, rcvd, sent, self, flap, boot >>

\* the control ports at the two ends of the link
Ends == {cp_head[FailedIface[1]][FailedIface[2]], cp_head[Peer(FailedIface)[1]][Peer(FailedIface)[2]]}

BothMissFail == \A c \in Ends : c.fail_type = MISS_FAIL

LinkSilent ==
    /\ self = "net"
    /\ flap = 0
    /\ Quiescent
    /\ current_time = StartTime
    /\ \A c \in Ends : c.isUP /\ c.last_received_time # 0
    /\ flap' = 3
    /\ UNCHANGED << cp_head, vap_head, vop_head, pc, current_time, working_ports, inbox, rcvd, sent, self, boot >>

LinkCarries ==
    /\ self = "net"
    /\ flap = 3
    /\ Quiescent
    /\ BothMissFail
    /\ flap' = 4
    /\ UNCHANGED << cp_head, vap_head, vop_head, pc, current_time, working_ports, inbox, rcvd, sent, self, boot >>

NextSilent == NextNet \/ TickSilent \/ LinkSilent \/ LinkCarries

\* every daemon keeps running its loop and the clock keeps running
SpecSilent == InitNet /\ [][NextSilent]_vars /\ WF_vars(NextSilent)

\* the clock leaves the time for four more keep-alives
TimeToRecover == current_time + (4 * HELLO_TIMER) <= StartTime + (MaxSilentTicks * HELLO_TIMER)

\* C34: when both ends of a link have marked their port down with
\* MISS_FAIL and the link delivers frames again in both directions, both
\* ports are up again after a while.
C34_Original == (BothMissFail /\ flap = 4 /\ TimeToRecover) ~> (\A c \in Ends : c.isUP)

\* the link has delivered frames again for four ticks of the clock, and
\* both ports are still down with MISS_FAIL
C34_Witness ==
    /\ flap = 4 /\ BothMissFail
    /\ current_time = StartTime + (MaxSilentTicks * HELLO_TIMER)
    /\ Quiescent

\* while both ports are marked with MISS_FAIL and no frame waits on the
\* link, no daemon writes a frame to the link and both ports keep MISS_FAIL
SilentWhileFailed ==
    [][\A i \in {FailedIface, Peer(FailedIface)} :
          (BothMissFail /\ flap = 4 /\ inbox[i] = << >> /\ inbox[Peer(i)] = << >>)
          => (inbox'[i] = << >> /\ BothMissFail')]_vars

(***************************************************************************)
(* The ports that carry the floods.                                        *)
(***************************************************************************)
\* the ports on which the step wrote a FAILURE_UPDATE or a RECOVER_UPDATE
UpdatePorts(out) == {x.port : x \in {y \in Range(out) : y.frame.type \in UpdateTypes}}

\* the ports of node n that the step takes down, resp. brings up
GoDown(n) == {k \in DOMAIN cp_head[n] : cp_head[n][k].isUP /\ ~cp_head'[n][k].isUP}

ComeUp(n) == {k \in DOMAIN cp_head[n] : ~cp_head[n][k].isUP /\ cp_head'[n][k].isUP}

\* C35: a FAILURE_UPDATE or a RECOVER_UPDATE is written only on control
\* ports that are up when it is written, in the periodic pass and in every
\* receive handler.  (A step of the daemon whose one link is unreliable
\* changes at most one port, before it writes: the ports written to are
\* those that are up when the step ends.)
C35_UpWhenWritten ==
    [][\A n \in Node :
          (ReceiveStep(n) \/ PassStep(n))
          => (/\ Cardinality(GoDown(n) \cup ComeUp(n)) <= 1
              /\ \A k \in UpdatePorts(sent'.out) : cp_head'[n][k].isUP)]_vars

\* a daemon has taken an update in and written one while one of its started
\* ports was down
C35_Witness ==
    /\ UpdatePorts(sent.out) # {}
    /\ \E k \in DOMAIN cp_head[self] : cp_head[self][k].start /\ ~cp_head[self][k].isUP
    /\ rcvd.frame.type \in UpdateTypes

\* when a pass takes several ports down, a port written to was up before
\* the pass, and if the pass takes it down, it does so after a port that it
\* visits earlier
UpWhenWrittenInPass ==
    [][\A n \in Node :
          PassStep(n)
          => \A k \in UpdatePorts(sent'.out) :
                /\ cp_head[n][k].isUP
                /\ k \in GoDown(n) => \E j \in GoDown(n) : j < k]_vars

\* a pass has taken two ports down and has written an update
TwoPortsDown ==
    /\ UpdatePorts(sent.out) # {}
    /\ pc[self] = "recv"
    /\ Cardinality({k \in DOMAIN cp_head[self] : cp_head[self][k].fail_type = DETECT_FAIL}) >= 2

(***************************************************************************)
(* The way of a DATA_MSG: up, then down.                                   *)
(***************************************************************************)
\* the destination VIDs of the tenant packets
DestVIDs == {m.dest_VID : m \in EnvData}

\* what the spine above a link forwards down the link, the switch below has
\* an accepted entry for: every destination VID that an accepted entry of
\* the upper switch holds for the link is held by an accepted entry of the
\* lower switch, unless that is the leaf itself.  (A switch advertises a VID
\* after it has accepted it, and no entry is ever removed.)
DownwardKnown ==
    \A i \in Iface : \A d \in DestVIDs :
        (/\ IsUpper(i[1], i[2])
         /\ \E e \in Containing(Peer(i)[1], d) : vap_head[Peer(i)[1]][e].port_name = port_name(Peer(i)[2]))
        => (mtpConfig(i[1]).isLeaf \/ Containing(i[1], d) # {})

\* the step takes a DATA_MSG in from the neighbour above, for a destination
\* that an accepted entry holds
DataFromAbove(n) ==
    /\ ReceiveStep(n) /\ ~mtpConfig(n).isLeaf
    /\ rcvd'.node = n /\ rcvd'.frame.type = MTP_TYPE_DATA_MSG
    /\ IsUpper(n, rcvd'.port)
    /\ Containing(n, rcvd'.frame.dest_VID) # {}

C37_LeafDecapsulates ==
    [][\A n \in Node : \A k \in DOMAIN cp_head[n] :
          (mtpConfig(n).isLeaf /\ Receives(n, k, MTP_TYPE_DATA_MSG))
          => (/\ Len(sent'.out) >= 1
              /\ sent'.out[1] = [port |-> COMPUTE_PORT, frame |-> ipv4_packet(rcvd'.frame.ip)]
              /\ rcvd'.ip = NoFrame => Len(sent'.out) = 1
              /\ cp_head'[n][k].last_received_time = current_time
              /\ rcvd'.ip = NoFrame =>
                    /\ cp_head'[n] = [cp_head[n] EXCEPT ![k].last_received_time = current_time]
                    /\ vap_head'[n] = vap_head[n] /\ vop_head'[n] = vop_head[n])]_vars

\* a leaf has taken in, on a port that is down, a DATA_MSG for a VID that
\* is not its root VID
C37_Witness ==
    \E n \in Node :
        /\ mtpConfig(n).isLeaf /\ pc[n] = "pass" /\ rcvd.node = n
        /\ rcvd.frame.type = MTP_TYPE_DATA_MSG /\ rcvd.ip = NoFrame
        /\ << rcvd.frame.dest_VID >> # getRootVID(n)
        /\ cp_head[n][rcvd.port].start /\ ~cp_head[n][rcvd.port].isUP
        /\ cp_head[n][rcvd.port].last_received_time = current_time

(***************************************************************************)
(* The order of the handshake on a link.                                   *)
(***************************************************************************)
\* the control port of interface i
PortOf(i) == cp_head[i[1]][i[2]]

\* a Join-Ack waits on the link to interface i
JoinAckInFlight(i) == \E j \in 1..Len(inbox[i]) : inbox[i][j].type = MTP_TYPE_JOIN_ACK

\* C38: on every link the port of the upper end gets start and isUP (on the
\* Start-Hello) only when the port of the lower end has start, isUP and an
\* offered entry already (set on the Join-Ack), and the upper end has its
\* accepted entry for the port when it sends the Join-Ack.
C38_HandshakeOrder ==
    [][\A l \in Links :
          /\ ((~PortOf(l[2]).start /\ PortOf(l[2])'.start) \/ (~PortOf(l[2]).isUP /\ PortOf(l[2])'.isUP))
             => (PortOf(l[1]).start /\ PortOf(l[1]).isUP /\ HasOffered(l[1][1], l[1][2]))
          /\ (~JoinAckInFlight(l[1]) /\ JoinAckInFlight(l[1])')
             => HasAccepted(l[2][1], l[2][2])']_vars

\* the top spine has taken the Start-Hello of a link in: both ends of the
\* link are started and up
C38_Witness ==
    \E l \in Links :
        /\ mtpConfig(l[2][1]).isTopSpine
        /\ PortOf(l[2]).start /\ PortOf(l[2]).isUP
        /\ PortOf(l[1]).start /\ PortOf(l[1]).isUP
        /\ HasOffered(l[1][1], l[1][2]) /\ HasAccepted(l[2][1], l[2][2])

====
